---- MODULE Spec2Model ----
(***************************************************************************)
(* Model of scry-mcp: the whiteboard tool call (src/src/server.rs), the    *)
(* board store (src/src/board.rs), the Python executor                     *)
(* (src/src/python.rs) and the render pipeline (src/src/render.rs).        *)
(*                                                                         *)
(* Request tasks run in parallel (multi-threaded tokio runtime); each      *)
(* action below is one stretch of a call between two points where another  *)
(* task can observe or change shared state: the board-map lock, the        *)
(* interpreter (statement by statement), the clock, the broadcast channel. *)
(***************************************************************************)
EXTENDS Integers, Sequences, FiniteSets, TLC

\* ------------------------------------------------------------------ bounds
MaxCalls == 2            \* whiteboard calls started in one behaviour
MaxSpin == 3             \* steps of an unbounded loop that a behaviour follows
MaxSent == 67            \* BoardEvents sent on the channel that is followed on its own
MaxRuns == 2             \* executions of the edge function's instance in one behaviour
SeedRenders == 50        \* renders already committed in SpecHist's seeded board

\* ------------------------------------------------------- program constants
MAX_NAME_LEN == 128
MAX_CODE_LEN == 1000000
MAX_HISTORY == 50
MAX_DIMENSION == 8192
DefaultWidth == 800
DefaultHeight == 600
MAX_OPERATIONS == 2000000
BROADCAST_CAPACITY == 64

Tasks == {1, 2}          \* request tasks that can be in flight together

\* ---------------------------------------------------------------- strings
\* A board name is a sequence of characters; a character is a token, and
\* the tokens below stand for the characters that are not printable ASCII.
NUL == "U+0000"
E_ACUTE == "U+00E9"
SQRT_SIGN == "U+221A"

\* char::len_utf8
Utf8Len(c) == IF c = E_ACUTE THEN 2 ELSE IF c = SQRT_SIGN THEN 3 ELSE 1

\* str::len: the length in bytes of the UTF-8 encoding, the sum of the
\* characters' encoded lengths
ByteLen(s) ==
    LET n(k) == Cardinality({i \in 1..Len(s) : Utf8Len(s[i]) = k})
    IN n(1) + 2 * n(2) + 3 * n(3) + 4 * n(4)

Contains(s, c) == \E i \in 1..Len(s) : s[i] = c
StartsWith(s, c) == Len(s) > 0 /\ s[1] = c
EndsWith(s, c) == Len(s) > 0 /\ s[Len(s)] = c

Repeat(c, n) == [i \in 1..n |-> c]

\* the characters that sanitize_filename keeps: 'A'..='Z', 'a'..='z',
\* '0'..='9', '.', '_', '-'
KeptChars ==
    {"A", "B", "C", "D", "E", "F", "G", "H", "I", "J", "K", "L", "M", "N", "O", "P",
     "Q", "R", "S", "T", "U", "V", "W", "X", "Y", "Z",
     "a", "b", "c", "d", "e", "f", "g", "h", "i", "j", "k", "l", "m", "n", "o", "p",
     "q", "r", "s", "t", "u", "v", "w", "x", "y", "z",
     "0", "1", "2", "3", "4", "5", "6", "7", "8", "9", ".", "_", "-"}

\* sanitize_filename working on the bytes of the name: a character that is
\* not kept gives one '_' for each byte of its encoding
sanitize_filenamePerByte(name) ==
    LET start(i) == ByteLen(SubSeq(name, 1, i - 1))
        at(k) == CHOOSE i \in 1..Len(name) : start(i) < k /\ k <= start(i) + Utf8Len(name[i])
    IN [k \in 1..ByteLen(name) |->
            IF name[at(k)] \in KeptChars THEN name[at(k)] ELSE "_"]

\* sanitize_filename, lines 98-105: the characters of the name one by one
\* (str::chars), each kept or turned into '_'
sanitize_filename(name) ==
    [i \in 1..Len(name) |-> IF name[i] \in KeptChars THEN name[i] ELSE "_"]

\* validate_board_name looking for forbidden characters before the length
validate_board_nameCharsFirst(name) ==
    IF name = <<>> THEN "Board name cannot be empty"
    ELSE IF Contains(name, "/") \/ Contains(name, NUL)
            \/ Contains(name, "\n") \/ Contains(name, "\r")
         THEN "Board name cannot contain /, null, or newline characters"
    ELSE IF ByteLen(name) > MAX_NAME_LEN THEN "Board name too long"
    ELSE IF StartsWith(name, ".") \/ StartsWith(name, " ") \/ EndsWith(name, " ")
         THEN "Board name cannot start with '.' or have leading/trailing spaces"
    ELSE "ok"

\* validate_board_name: "ok" or the message of the first rule violated
validate_board_name(name) ==
    IF name = <<>> THEN "Board name cannot be empty"
    ELSE IF ByteLen(name) > MAX_NAME_LEN THEN "Board name too long"
    ELSE IF Contains(name, "/") \/ Contains(name, NUL)
            \/ Contains(name, "\n") \/ Contains(name, "\r")
         THEN "Board name cannot contain /, null, or newline characters"
    ELSE IF StartsWith(name, ".") \/ StartsWith(name, " ") \/ EndsWith(name, " ")
         THEN "Board name cannot start with '.' or have leading/trailing spaces"
    ELSE "ok"

\* ------------------------------------------------------------------- SVG
\* An SVG string is modelled by what usvg reads from it: whether it is the
\* empty string, whether it parses, the integer size of the parsed tree and
\* a body that tells two drawings apart.
EmptyString == [text |-> "", width |-> 0, height |-> 0, body |-> 0]
SvgDoc(w, h, b) == [text |-> "<svg>", width |-> w, height |-> h, body |-> b]

is_empty(s) == s.text = ""

\* usvg::Tree::from_str: only a well-formed document yields a tree
ParsesAsSvg(s) == s.text = "<svg>"

\* Pixmap::encode_png: the PNG signature followed by the encoded pixels
EncodePng(w, h, b) == <<137, 80, 78, 71, w, h, b>>

\* the Err of svg_to_png: no PNG, and no pixmap was allocated
RenderErr(msg) == [ok |-> FALSE, err |-> msg, png |-> <<>>, pixmap |-> <<>>]

\* svg_to_png accepting only sizes below MAX_DIMENSION
svg_to_pngBelowMax(s) ==
    IF ~ParsesAsSvg(s) THEN RenderErr("SVG parse error")
    ELSE IF s.width = 0 \/ s.height = 0 THEN RenderErr("SVG has zero dimensions")
    ELSE IF s.width >= MAX_DIMENSION \/ s.height >= MAX_DIMENSION
         THEN RenderErr("SVG dimensions exceed maximum")
    ELSE [ok |-> TRUE, err |-> "", png |-> EncodePng(s.width, s.height, s.body),
          pixmap |-> <<s.width, s.height>>]

\* svg_to_png, lines 16-41: the parse, the zero check, the maximum check,
\* then Pixmap::new with the size, the rendering and the PNG encoding.
\* pixmap is the size of the pixmap that was allocated, <<>> when none was.
svg_to_png(s) ==
    IF ~ParsesAsSvg(s) THEN RenderErr("SVG parse error")
    ELSE IF s.width = 0 \/ s.height = 0 THEN RenderErr("SVG has zero dimensions")
    ELSE IF s.width > MAX_DIMENSION \/ s.height > MAX_DIMENSION
         THEN RenderErr("SVG dimensions exceed maximum")
    ELSE [ok |-> TRUE, err |-> "", png |-> EncodePng(s.width, s.height, s.body),
          pixmap |-> <<s.width, s.height>>]

\* ------------------------------------------------------------- snippets
\* A snippet is its byte length, whether it holds a NUL byte, and the
\* statements it runs.  x is the one user variable of the model.
Stmt(op, arg) == [op |-> op, arg |-> arg]

Code(len, nul, stmts) == [len |-> len, nul |-> nul, stmts |-> stmts]

\* x = globals().get('x', 0) + 1; svg(<a drawing of x>)
SnipDraw == Code(60, FALSE, <<Stmt("bump", 0), Stmt("svgx", 0)>>)
\* the same drawing, followed by a comment that fills the snippet up to
\* the limit
SnipDrawFull == Code(MAX_CODE_LEN, FALSE, <<Stmt("bump", 0), Stmt("svgx", 0)>>)
\* x = 5; print(x), followed by a comment that fills the snippet up to
\* the limit
SnipNote == Code(MAX_CODE_LEN, FALSE, <<Stmt("set", 5), Stmt("print", 0)>>)
\* x = 7; raise Exception
SnipCrash == Code(22, FALSE, <<Stmt("set", 7), Stmt("raise", 0)>>)
\* x = 8; svg('')
SnipBadSvg == Code(14, FALSE, <<Stmt("set", 8), Stmt("svg", EmptyString)>>)
\* x = 3; print(x); raise Exception
SnipPrintCrash == Code(31, FALSE, <<Stmt("set", 3), Stmt("print", 0), Stmt("raise", 0)>>)
\* x = 9, with a NUL byte in a trailing comment
SnipNul == Code(11, TRUE, <<Stmt("set", 9)>>)
\* WIDTH = 5; x = 3
SnipDims == Code(16, FALSE, <<Stmt("setw", 5), Stmt("set", 3)>>)
\* while True: pass
SnipLoop == Code(17, FALSE, <<Stmt("loop", 0)>>)
\* max(iter(int, 1)): an endless loop inside one builtin call
SnipHog == Code(17, FALSE, <<Stmt("hog", 0)>>)
\* __builtins__['open'] = collections._sys.modules['builtins'].open
SnipEscape == Code(65, FALSE, <<Stmt("unblock", "open")>>)
\* open('/etc/hostname')
SnipOpen == Code(21, FALSE, <<Stmt("call", "open")>>)
\* import os
SnipImport == Code(9, FALSE, <<Stmt("import", "os")>>)
\* one byte more than the limit
SnipTooLong == Code(MAX_CODE_LEN + 1, FALSE, <<Stmt("set", 1)>>)

\* Option<u32>: <<>> is None, <<n>> is Some(n)
NoneOpt == <<>>
Some(n) == <<n>>
unwrap_or(o, d) == IF o = <<>> THEN d ELSE o[1]

NameA == <<"a">>
NameB == <<"b">>

Request(name, code, w, h) == [name |-> name, code |-> code, width |-> w, height |-> h]

ValidRequests ==
    { Request(NameA, c, NoneOpt, NoneOpt) :
        c \in {SnipDraw, SnipNote, SnipCrash, SnipBadSvg} }
    \cup { Request(NameB, SnipDrawFull, Some(MAX_DIMENSION), Some(1)) }

InvalidRequests ==
    { Request(<<"a", "/", "b">>, SnipDraw, NoneOpt, NoneOpt),
      Request(Repeat(E_ACUTE, 65), SnipDraw, NoneOpt, NoneOpt),
      Request(NameA, SnipDraw, Some(0), NoneOpt),
      Request(NameA, SnipDraw, NoneOpt, Some(MAX_DIMENSION + 1)),
      Request(NameA, SnipTooLong, NoneOpt, NoneOpt) }

Requests == ValidRequests \cup InvalidRequests

Put(d, k, v) == [key \in DOMAIN d \cup {k} |-> IF key = k THEN v ELSE d[key]]
Drop(d, k) == [key \in DOMAIN d \ {k} |-> d[key]]

\* ----------------------------------------------------- the Rhai executor
\* rhai::Dynamic, for the types the model's scripts produce.  A float is
\* named by its literal; "NaN" and "inf" are the non-finite ones.
\* Of the fields b, n, s the one the type names holds the value.
DUnit == [t |-> "unit", b |-> FALSE, n |-> 0, s |-> ""]
DBool(b) == [t |-> "bool", b |-> b, n |-> 0, s |-> ""]
DInt(n) == [t |-> "int", b |-> FALSE, n |-> n, s |-> ""]
DFloat(x) == [t |-> "float", b |-> FALSE, n |-> 0, s |-> x]
DChar(c) == [t |-> "char", b |-> FALSE, n |-> 0, s |-> c]
DStr(str) == [t |-> "string", b |-> FALSE, n |-> 0, s |-> str]

\* f64::is_finite
is_finite(x) == x \notin {"NaN", "inf"}

\* serde_json::Value; a Number is an integer or a float (N::Float)
JNull == [j |-> "null", b |-> FALSE, n |-> 0, s |-> ""]
JBool(b) == [j |-> "bool", b |-> b, n |-> 0, s |-> ""]
JInt(n) == [j |-> "int", b |-> FALSE, n |-> n, s |-> ""]
JFloat(x) == [j |-> "float", b |-> FALSE, n |-> 0, s |-> x]
JString(str) == [j |-> "string", b |-> FALSE, n |-> 0, s |-> str]

\* dynamic_to_json, lines 356-389, in the order of its tests; a value that
\* is none of unit, bool, int, float, string, array, map falls through to
\* its string representation
dynamic_to_json(value) ==
    IF value.t = "unit" THEN JNull
    ELSE IF value.t = "bool" THEN JBool(value.b)
    ELSE IF value.t = "int" THEN JInt(value.n)
    ELSE IF value.t = "float"
         THEN (IF is_finite(value.s) THEN JFloat(value.s) ELSE JNull)
    ELSE IF value.t = "string" THEN JString(value.s)
    ELSE JString(value.s)

\* json_to_dynamic, lines 327-353
json_to_dynamic(value) ==
    IF value.j = "null" THEN DUnit
    ELSE IF value.j = "bool" THEN DBool(value.b)
    ELSE IF value.j = "int" THEN DInt(value.n)
    ELSE IF value.j = "float" THEN DFloat(value.s)
    ELSE DStr(value.s)

\* The text of a JSON object is modelled by the object it is read back as
\* (serde_json writes and reads the values above without change); a text
\* that is no JSON object has ok = FALSE.
JsonText(map) == [ok |-> TRUE, map |-> map]
EmptyObject == JsonText(<<>>)

\* the order in which a scope is filled and walked
ScopeNames == <<"HEIGHT", "WIDTH", "x">>

Entry(name, is_constant, value) ==
    [name |-> name, is_constant |-> is_constant, value |-> value]

\* scope_from_json, lines 315-324: one variable per key; a text that does
\* not parse gives the empty scope
scope_from_json(json) ==
    IF ~json.ok THEN <<>>
    ELSE LET keys == SelectSeq(ScopeNames, LAMBDA n : n \in DOMAIN json.map)
         IN [i \in 1..Len(keys) |->
                Entry(keys[i], FALSE, json_to_dynamic(json.map[keys[i]]))]

\* Scope::push_constant
push_constant(scope, name, value) == Append(scope, Entry(name, TRUE, value))

\* the entry a name resolves to: the last one pushed under it; 0 when none
Resolve(scope, name) ==
    LET at == {i \in 1..Len(scope) : scope[i].name = name}
    IN IF at = {} THEN 0 ELSE CHOOSE i \in at : \A k \in at : k <= i

\* scope_to_json, lines 392-402: constants are skipped; of two entries with
\* one name the later one is written
scope_to_json(scope) ==
    LET kept == {i \in 1..Len(scope) : ~scope[i].is_constant}
        names == {scope[i].name : i \in kept}
        last(n) == CHOOSE i \in kept :
                      scope[i].name = n /\ \A k \in kept : scope[k].name = n => k <= i
    IN JsonText([n \in names |-> dynamic_to_json(scope[last(n)].value)])

\* A script: whether a string literal in it holds a NUL character, whether
\* it compiles, and its statements.
Script(nul, compiles, stmts) == [nul |-> nul, compiles |-> compiles, stmts |-> stmts]

\* A statement of a script: its operation, the value it names (let) and
\* the document it names (svg)
RStmt(op, value, doc) == [op |-> op, value |-> value, doc |-> doc]

\* The state of a run: the scope, the two thread-locals, the error if one
\* was raised, the operations counted by the engine, and (history) the
\* values the script assigned and what it printed.
Run(scope, slot, buf) ==
    [scope |-> scope, SVG_CONTENT |-> slot, STDOUT_BUF |-> buf, error |-> <<>>,
     ops |-> 0, assigned |-> <<>>, printed |-> <<>>, drew |-> <<>>]

\* Display of a value, as print() hands it to on_print
Shown(value) == value

\* One statement of a script run by run_ast_with_scope against the run r.
RunStmt(r, s) ==
    LET at == Resolve(r.scope, "x")
        tick == [r EXCEPT !.ops = r.ops + 1]
        fail(msg) == [tick EXCEPT !.error = <<msg>>]
    IN CASE s.op = "let" ->
              [tick EXCEPT !.scope = Append(r.scope, Entry("x", FALSE, s.value)),
                           !.assigned = Put(r.assigned, "x", s.value)]
         [] s.op = "incr" ->
              IF at = 0 THEN fail("Variable not found: x")
              ELSE IF r.scope[at].value.t # "int" THEN fail("Function not found: +")
              ELSE [tick EXCEPT !.scope[at].value = DInt(r.scope[at].value.n + 1),
                                !.assigned = Put(r.assigned, "x",
                                                 DInt(r.scope[at].value.n + 1))]
         [] s.op = "print" ->
              IF at = 0 THEN fail("Variable not found: x")
              ELSE [tick EXCEPT !.STDOUT_BUF = Append(r.STDOUT_BUF, Shown(r.scope[at].value)),
                                !.printed = Append(r.printed, Shown(r.scope[at].value))]
         [] s.op = "svg" -> [tick EXCEPT !.SVG_CONTENT = <<s.doc>>, !.drew = <<s.doc>>]
         [] s.op = "throw" -> fail("Runtime error")
         [] s.op = "loop" ->
              [r EXCEPT !.ops = MAX_OPERATIONS, !.error = <<"Too many operations">>]

\* run_ast_with_scope: the statements in order, up to the first error
RECURSIVE RunAst(_, _, _)
RunAst(r, stmts, i) ==
    IF i > Len(stmts) \/ r.error # <<>> THEN r
    ELSE RunAst(RunStmt(r, stmts[i]), stmts, i + 1)

\* ExecResult, lines 58-68
ExecResult(svg, stdout, scope, error) ==
    [svg |-> svg, stdout |-> stdout, scope |-> scope, error |-> error]

\* execute that runs the statements before it reports the compile error
executeRunsFirst(code, scope_json, width, height, tl) ==
    LET scope0 == scope_from_json(scope_json)
        scope1 == push_constant(push_constant(scope0, "WIDTH", DInt(width)),
                                "HEIGHT", DInt(height))
        cleared == [tl EXCEPT !.SVG_CONTENT = <<>>, !.STDOUT_BUF = <<>>]
        r0 == Run(scope1, cleared.SVG_CONTENT, cleared.STDOUT_BUF)
        r == RunAst(r0, code.stmts, 1)
        result == ExecResult(r.SVG_CONTENT, r.STDOUT_BUF, scope_to_json(r.scope),
                             IF ~code.compiles THEN <<"Compile error">> ELSE r.error)
    IN [result |-> result, SVG_CONTENT |-> r.SVG_CONTENT, STDOUT_BUF |-> r.STDOUT_BUF,
        started |-> scope1, ran |-> r.ops, assigned |-> r.assigned,
        printed |-> r.printed, drew |-> r.drew]

\* execute, lines 482-536: the result, the two thread-locals as the call
\* leaves them, and (history) what the script saw and did
execute(code, scope_json, width, height, tl) ==
    LET scope0 == scope_from_json(scope_json)
        scope1 == push_constant(push_constant(scope0, "WIDTH", DInt(width)),
                                "HEIGHT", DInt(height))
        cleared == [tl EXCEPT !.SVG_CONTENT = <<>>, !.STDOUT_BUF = <<>>]
        r0 == Run(scope1, cleared.SVG_CONTENT, cleared.STDOUT_BUF)
        r == IF code.compiles THEN RunAst(r0, code.stmts, 1) ELSE r0
        result == IF ~code.compiles
                  THEN ExecResult(<<>>, r0.STDOUT_BUF, scope_json, <<"Compile error">>)
                  ELSE ExecResult(r.SVG_CONTENT, r.STDOUT_BUF, scope_to_json(r.scope),
                                  r.error)
    IN [result |-> result, SVG_CONTENT |-> r.SVG_CONTENT, STDOUT_BUF |-> r.STDOUT_BUF,
        started |-> scope1, ran |-> r.ops, assigned |-> r.assigned,
        printed |-> r.printed, drew |-> r.drew]

\* Scripts.  x is the one user variable of the model.
\* let x = <value>
RLet(value) == Script(FALSE, TRUE, <<RStmt("let", value, EmptyString)>>)
\* x = x + 1; print(x)
RCount == Script(FALSE, TRUE, <<RStmt("incr", DUnit, EmptyString), RStmt("print", DUnit, EmptyString)>>)
\* svg(<one drawing>); svg(<another>)
RDraw == Script(FALSE, TRUE, <<RStmt("svg", DUnit, SvgDoc(100, 100, 1)),
                               RStmt("svg", DUnit, SvgDoc(100, 100, 2))>>)
\* print(x); throw "boom"
RPrintThrow == Script(FALSE, TRUE, <<RStmt("print", DUnit, EmptyString), RStmt("throw", DUnit, EmptyString)>>)
\* throw "boom"
RThrow == Script(FALSE, TRUE, <<RStmt("throw", DUnit, EmptyString)>>)
\* loop { }
RLoop == Script(FALSE, TRUE, <<RStmt("loop", DUnit, EmptyString)>>)
\* let x = "<NUL>"; svg(<a drawing>): the NUL is inside a string literal,
\* where the lexer takes it as a character of the string
RNul == Script(TRUE, TRUE, <<RStmt("let", DStr("NUL"), EmptyString), RStmt("svg", DUnit, SvgDoc(100, 100, 3))>>)
\* svg(<a drawing>) followed by an unbalanced brace
RSyntax == Script(FALSE, FALSE, <<RStmt("svg", DUnit, SvgDoc(100, 100, 4))>>)

RhaiValues ==
    {DUnit, DBool(TRUE), DInt(1), DFloat("2.5"), DFloat("NaN"), DChar("a"), DStr("a")}

RhaiScripts ==
    {RLet(v) : v \in RhaiValues}
    \cup {RCount, RDraw, RPrintThrow, RThrow, RLoop, RNul, RSyntax}

\* the canvas sizes the host passes
RhaiSizes == {<<DefaultWidth, DefaultHeight>>, <<1024, 768>>}

\* The WASM instance before its first execute: the thread-locals of lines
\* 70-73 hold None and the empty string; the host holds the board's scope,
\* the JSON text of the empty object.
RhaiBoot ==
    [SVG_CONTENT |-> <<>>, STDOUT_BUF |-> <<>>, store |-> EmptyObject, runs |-> 0,
     last |-> <<>>]

\* ------------------------------------------------------------------ state
VARIABLES
    boards,       \* AppState.boards: the map name -> Board
    wlock,        \* the task holding the map's write guard, 0 when free
    namespaces,   \* the interpreter's heap of namespace dicts; a handle is an index
    sysStdout,    \* sys.stdout: 0 is the process's stdout, else the StringIO of that call
    bufs,         \* the StringIO buffers of the executions under way, by call id
    svgStorage,   \* the svg_storage slots of the executions under way, by call id
    realOut,      \* what was written to the process's real stdout
    clock,        \* the next value Utc::now() returns
    events,       \* the BoardEvents sent on event_tx, in send order
    tasks,        \* the request tasks: position in whiteboard() and its locals
    ncalls,       \* calls started so far; a call's id is its rank
    budget,       \* calls that may still start in this behaviour
    eventBy,      \* history: for each sent event, the id of the call that sent it
    committed,    \* history: per board, the (svg, png) of each render commit, in order
    creator,      \* history: per board, the id of the call that inserted it
    lastExec,     \* history: per namespace, how the last finished execution left it
    menu,         \* the requests that clients send in this behaviour
    rhai,         \* the edge function's WASM instance of the Rhai executor
    raster,       \* a document handed to svg_to_png on its own, and the result
    sse,          \* the broadcast channel and a gallery subscriber, on their own
    disk,         \* the output directory: whether one is configured, and its files
    probe,        \* a pure function applied on its own: its name, argument, result
    snap,         \* history: per board, what its last commit set out to store
    gil           \* the task attached to the Python interpreter, 0 when none is

vars == <<boards, wlock, namespaces, sysStdout, bufs, svgStorage, realOut, clock,
          events, tasks, ncalls, budget, eventBy, committed, creator, lastExec,
          menu, rhai, raster, sse, disk, probe, snap, gil>>

\* A response: png is the image content; png_path and svg_path are the
\* "PNG:" and "SVG:" lines of the header, <<>> when the line is absent
NoResp ==
    [kind |-> "none", stage |-> "", text |-> "", stdout |-> <<>>, png |-> <<>>,
     png_path |-> <<>>, svg_path |-> <<>>]
ToolError(stage, text, out) ==
    [kind |-> "tool_error", stage |-> stage, text |-> text, stdout |-> out, png |-> <<>>,
     png_path |-> <<>>, svg_path |-> <<>>]
TransportError(text) ==
    [kind |-> "transport_error", stage |-> "create_namespace", text |-> text,
     stdout |-> <<>>, png |-> <<>>, png_path |-> <<>>, svg_path |-> <<>>]
Success(stage, text, out, png) ==
    [kind |-> "success", stage |-> stage, text |-> text, stdout |-> out, png |-> png,
     png_path |-> <<>>, svg_path |-> <<>>]

IdleTask ==
    [pc |-> "idle", id |-> 0, name |-> <<>>, code |-> Code(0, FALSE, <<>>),
     w |-> 0, h |-> 0, namespace |-> 0, is_new_board |-> FALSE,
     ip |-> 0, raised |-> FALSE, old_stdout |-> 0,
     svg_content |-> EmptyString, png_bytes |-> <<>>, stdout |-> <<>>, now |-> 0,
     resp |-> NoResp, before |-> <<>>, interfered |-> FALSE, disturbed |-> FALSE,
     start |-> <<>>, assigned |-> <<>>, seen |-> <<>>, drew |-> <<>>,
     printed |-> <<>>, out |-> <<>>, ops |-> 0, reached |-> {},
     wrote |-> [png |-> FALSE, svg |-> FALSE], commit_no |-> 0]

\* The names a snippet bound in a namespace dict: everything but the names
\* that create_namespace and execute_python put there
UserVars(d) ==
    [k \in DOMAIN d \ {"WIDTH", "HEIGHT", "svg", "__builtins__"} |-> d[k]]

\* history: an execution has finished on a namespace: whether it succeeded,
\* whether it ran with no other execution under way on the namespace, and
\* the values its snippet assigned (name -> last value assigned)
LeftBy(ok, clean, assigned) == [ok |-> ok, clean |-> clean, assigned |-> assigned]

\* what a commit stores, as the six fields that readers show
Stored(svg, png, updated_at, width, height, history_len) ==
    [svg |-> svg, png |-> png, updated_at |-> updated_at, width |-> width,
     height |-> height, history_len |-> history_len]

\* no function is applied on its own
NoProbe == [fn |-> "", arg |-> <<>>, args |-> <<>>, result |-> <<>>]

\* no channel is followed on its own
NoSse ==
    [total |-> 0, tail |-> 0, subscribed |-> FALSE, open |-> FALSE, since |-> 0,
     next |-> 0, last |-> 0, delivered |-> 0, skipped |-> 0, ordered |-> TRUE,
     behind |-> 0]

\* AppState::new with output_dir = None: nothing is written
NoDisk == [output_dir |-> FALSE, files |-> <<>>]

\* no document is being rendered on its own
NoRaster == [doc |-> <<>>, result |-> <<>>]

\* AppState::new and the first poll of the server: no board, nothing sent
Init ==
    /\ boards = <<>>
    /\ wlock = 0
    /\ namespaces = <<>>
    /\ sysStdout = 0
    /\ bufs = <<>>
    /\ svgStorage = <<>>
    /\ realOut = <<>>
    /\ clock = 1
    /\ events = <<>>
    /\ tasks = [t \in Tasks |-> IdleTask]
    /\ ncalls = 0
    /\ budget = MaxCalls
    /\ eventBy = <<>>
    /\ committed = <<>>
    /\ creator = <<>>
    /\ lastExec = <<>>
    /\ menu = Requests
    /\ rhai = RhaiBoot
    /\ raster = NoRaster
    /\ sse = NoSse
    /\ disk = NoDisk
    /\ probe = NoProbe
    /\ snap = <<>>
    /\ gil = 0

\* ------------------------------------------------------------- validation
DimIsZero(w, h) == w = 0 \/ h = 0
\* DimTooLarge with >= for >
DimTooLargeOffByOne(w, h) == w >= MAX_DIMENSION \/ h >= MAX_DIMENSION
DimTooLarge(w, h) == w > MAX_DIMENSION \/ h > MAX_DIMENSION
CodeTooLarge(code) == code.len > MAX_CODE_LEN

\* ValidateParams without the two checks of the dimensions
ValidateParamsNameAndCode(name, code, w, h) ==
    IF validate_board_name(name) # "ok" THEN validate_board_name(name)
    ELSE IF CodeTooLarge(code) THEN "Code too large"
    ELSE "ok"

\* whiteboard, lines 55-80: "ok" or the message of the tool-level error
ValidateParams(name, code, w, h) ==
    IF validate_board_name(name) # "ok" THEN validate_board_name(name)
    ELSE IF DimIsZero(w, h) THEN "Width and height must be greater than zero"
    ELSE IF DimTooLarge(w, h) THEN "Width and height must be at most 8192"
    ELSE IF CodeTooLarge(code) THEN "Code too large"
    ELSE "ok"

\* history: what the call found when it started
Snapshot(name) ==
    IF name \in DOMAIN boards
    THEN <<[board |-> boards[name], dict |-> namespaces[boards[name].namespace]]>>
    ELSE <<>>

\* A call arrives: the parameters are unpacked and validated.
Call(t, req) ==
    LET w == unwrap_or(req.width, DefaultWidth)
        h == unwrap_or(req.height, DefaultHeight)
        msg == ValidateParams(req.name, req.code, w, h)
        call == [IdleTask EXCEPT !.id = ncalls + 1, !.name = req.name, !.code = req.code,
                                 !.w = w, !.h = h, !.before = Snapshot(req.name)]
    IN /\ tasks[t].pc = "idle"
       /\ budget > 0
       /\ budget' = budget - 1
       /\ ncalls' = ncalls + 1
       /\ tasks' = [tasks EXCEPT ![t] =
             IF msg # "ok"
             THEN [call EXCEPT !.pc = "done", !.resp = ToolError("validation", msg, <<>>)]
             ELSE [call EXCEPT !.pc = "get_or_create"]]
       /\ UNCHANGED <<boards, wlock, namespaces, sysStdout, bufs, svgStorage,
                   realOut, clock, events, eventBy, committed, creator, lastExec,
                   menu, rhai, raster,
                   sse, disk, probe, snap, gil>>

\* ---------------------------------------------------------- get or create
\* lines 89-92: the board exists; the handle is cloned under the write guard
GetExisting(t) ==
    /\ tasks[t].pc = "get_or_create"
    /\ wlock = 0
    /\ tasks[t].name \in DOMAIN boards
    /\ tasks' = [tasks EXCEPT ![t].pc = "run_python",
                              ![t].namespace = boards[tasks[t].name].namespace,
                              ![t].is_new_board = FALSE]
    /\ UNCHANGED <<boards, wlock, namespaces, sysStdout, bufs, svgStorage,
                   realOut, clock, events, ncalls, budget, eventBy, committed,
                   creator, lastExec, menu, rhai, raster,
                   sse, disk, probe, snap, gil>>

\* BeginCreate with the write guard dropped before the namespace is built
BeginCreateUnlocked(t) ==
    /\ tasks[t].pc = "get_or_create"
    /\ wlock = 0
    /\ tasks[t].name \notin DOMAIN boards
    /\ tasks' = [tasks EXCEPT ![t].pc = "create_namespace"]
    /\ UNCHANGED <<boards, wlock, namespaces, sysStdout, bufs, svgStorage,
                   realOut, clock, events, ncalls, budget, eventBy, committed,
                   creator, lastExec, menu, rhai, raster,
                   sse, disk, probe, snap, gil>>

\* lines 89, 93-96: the board is missing; the task keeps the write guard and
\* waits for the worker thread that builds the namespace
BeginCreate(t) ==
    /\ tasks[t].pc = "get_or_create"
    /\ wlock = 0
    /\ tasks[t].name \notin DOMAIN boards
    /\ wlock' = t
    /\ tasks' = [tasks EXCEPT ![t].pc = "create_namespace"]
    /\ UNCHANGED <<boards, namespaces, sysStdout, bufs, svgStorage, realOut,
                   clock, events, ncalls, budget, eventBy, committed, creator,
                   lastExec, menu, rhai, raster,
                   sse, disk, probe, snap, gil>>

\* BLOCKED_BUILTINS, lines 28-36
BLOCKED_BUILTINS ==
    {"__import__", "open", "exec", "eval", "compile", "input", "breakpoint"}

\* BLOCKED_MODULES, lines 41-69 (the ones the model's snippets import)
BLOCKED_MODULES == {"os", "io", "_io", "subprocess"}

\* create_namespace: a fresh dict with the canvas dimensions and a copy of
\* the builtins without the blocked ones.  Under "__builtins__" the model
\* keeps which of the blocked names the copy holds: none.
create_namespace(width, height) ==
    [k \in {"WIDTH", "HEIGHT", "__builtins__"} |->
        IF k = "WIDTH" THEN width ELSE IF k = "HEIGHT" THEN height ELSE 0]

\* The blocked names in a dict's builtins are kept as the sum of their bits
Bit(name) ==
    CASE name = "__import__" -> 1 [] name = "open" -> 2 [] name = "exec" -> 4
      [] name = "eval" -> 8 [] name = "compile" -> 16 [] name = "input" -> 32
      [] name = "breakpoint" -> 64
HasBuiltin(d, name) ==
    name \in BLOCKED_BUILTINS /\ (d["__builtins__"] \div Bit(name)) % 2 = 1
WithBuiltin(d, name) ==
    IF HasBuiltin(d, name) THEN d
    ELSE [d EXCEPT !["__builtins__"] = @ + Bit(name)]

\* Placeholder that hands every board the namespace built first
PlaceholderSharedNamespace(name, w, h, ns, now) ==
    [name |-> name, width |-> w, height |-> h, svg |-> EmptyString, png |-> <<>>,
     namespace |-> 1, created_at |-> now, updated_at |-> now, history |-> <<>>]

\* the placeholder of lines 102-112
Placeholder(name, w, h, ns, now) ==
    [name |-> name, width |-> w, height |-> h, svg |-> EmptyString, png |-> <<>>,
     namespace |-> ns, created_at |-> now, updated_at |-> now, history |-> <<>>]

\* CreateNamespaceOk with the write guard kept into the execution
CreateNamespaceOkKeepsGuard(t) ==
    LET me == tasks[t]
        ns == Len(namespaces) + 1
    IN /\ me.pc = "create_namespace"
       /\ namespaces' = Append(namespaces, create_namespace(me.w, me.h))
       /\ boards' = Put(boards, me.name, Placeholder(me.name, me.w, me.h, ns, clock))
       /\ clock' = clock + 1
       /\ committed' = Put(committed, me.name, <<>>)
       /\ creator' = Put(creator, me.name, me.id)
       /\ lastExec' = Append(lastExec, LeftBy(TRUE, TRUE, <<>>))
       /\ tasks' = [tasks EXCEPT ![t].pc = "run_python", ![t].namespace = ns,
                                 ![t].is_new_board = TRUE]
       /\ snap' = Put(snap, me.name, Stored(EmptyString, <<>>, clock, me.w, me.h, 0))
       /\ UNCHANGED <<wlock, sysStdout, bufs, svgStorage, realOut, events, ncalls, budget,
                   eventBy, menu, rhai, raster,
                   sse, disk, probe, gil>>

\* lines 95-115: the namespace is built, the placeholder inserted, the guard dropped
CreateNamespaceOk(t) ==
    LET me == tasks[t]
        ns == Len(namespaces) + 1
    IN /\ me.pc = "create_namespace"
       /\ namespaces' = Append(namespaces, create_namespace(me.w, me.h))
       /\ boards' = Put(boards, me.name, Placeholder(me.name, me.w, me.h, ns, clock))
       /\ clock' = clock + 1
       /\ committed' = Put(committed, me.name, <<>>)
       /\ creator' = Put(creator, me.name, me.id)
       /\ lastExec' = Append(lastExec, LeftBy(TRUE, TRUE, <<>>))
       /\ wlock' = 0
       /\ tasks' = [tasks EXCEPT ![t].pc = "run_python", ![t].namespace = ns,
                                 ![t].is_new_board = TRUE]
       /\ snap' = Put(snap, me.name, Stored(EmptyString, <<>>, clock, me.w, me.h, 0))
       /\ UNCHANGED <<sysStdout, bufs, svgStorage, realOut, events, ncalls, budget,
                   eventBy, menu, rhai, raster,
                   sse, disk, probe, gil>>

\* line 97: create_namespace_async fails; `?` returns a protocol-level error
\* and drops the guard
CreateNamespaceErr(t) ==
    /\ tasks[t].pc = "create_namespace"
    /\ wlock' = 0
    /\ tasks' = [tasks EXCEPT ![t].pc = "done",
                              ![t].resp = TransportError("internal_error")]
    /\ UNCHANGED <<boards, namespaces, sysStdout, bufs, svgStorage, realOut,
                   clock, events, ncalls, budget, eventBy, committed, creator,
                   lastExec, menu, rhai, raster,
                   sse, disk, probe, snap, gil>>

\* history: task t committed to board `name`, so the snapshot of the board
\* that another call on it took no longer describes it
MarkOthers(tk, t, name) ==
    [u \in Tasks |-> IF u # t /\ tk[u].pc # "idle" /\ tk[u].name = name
                     THEN [tk[u] EXCEPT !.interfered = TRUE] ELSE tk[u]]

\* history: task t assigned a variable in the namespace of board `name`
\* while another call on that board was under way
Disturb(tk, t, name) ==
    [u \in Tasks |-> IF u # t /\ tk[u].pc # "idle" /\ tk[u].name = name
                     THEN [tk[u] EXCEPT !.disturbed = TRUE] ELSE tk[u]]

\* ------------------------------------------------------------ execute_python
\* task u is inside py.run on the namespace with handle ns
Executing(u, ns) == tasks[u].pc = "py_run" /\ tasks[u].namespace = ns

\* history: task t's execution on its namespace ends
Leave(t, ok) ==
    [lastExec EXCEPT ![tasks[t].namespace] =
        LeftBy(ok,
               /\ ~tasks[t].disturbed
               /\ \A u \in Tasks \ {t} : ~Executing(u, tasks[t].namespace),
               tasks[t].assigned)]

\* history: what task t's execution starts from: the bindings in the
\* namespace, how the execution before it left the namespace, and whether no
\* other execution is under way on the namespace
StartOf(t) ==
    << [vars |-> UserVars(namespaces[tasks[t].namespace]),
        prev |-> lastExec[tasks[t].namespace],
        alone |-> \A u \in Tasks \ {t} : ~Executing(u, tasks[t].namespace)] >>

\* lines 149-172: WIDTH and HEIGHT are set, a fresh svg callback is bound to
\* `svg`, stdout is redirected to a fresh StringIO, and the code is turned
\* into a C string, which fails on a NUL byte
ExecSetup(t) ==
    LET me == tasks[t]
        d0 == namespaces[me.namespace]
        d1 == Put(Put(Put(d0, "WIDTH", me.w), "HEIGHT", me.h), "svg", me.id)
    IN /\ me.pc = "run_python"
       /\ namespaces' = [namespaces EXCEPT ![me.namespace] = d1]
       /\ sysStdout' = me.id
       /\ IF me.code.nul
          THEN /\ tasks' = [tasks EXCEPT ![t].pc = "done", ![t].start = StartOf(t),
                     ![t].resp = ToolError("python", "Code contains null byte", <<>>)]
               /\ lastExec' = Leave(t, FALSE)
               /\ UNCHANGED <<bufs, svgStorage>>
          ELSE /\ tasks' = [tasks EXCEPT ![t].pc = "py_run", ![t].ip = 1,
                                         ![t].old_stdout = sysStdout,
                                         ![t].start = StartOf(t)]
               /\ bufs' = Put(bufs, me.id, <<>>)
               /\ svgStorage' = Put(svgStorage, me.id, <<>>)
               /\ UNCHANGED lastExec
       /\ UNCHANGED <<boards, wlock, realOut, clock, events, ncalls, budget, eventBy,
                   committed, creator, menu, rhai, raster,
                   sse, disk, probe, snap, gil>>

\* SvgCallback::__call__ on the callback object bound to `svg`: the slot of
\* the execution that created that callback is overwritten
CallSvg(d, doc) ==
    IF d["svg"] \in DOMAIN svgStorage
    THEN [svgStorage EXCEPT ![d["svg"]] = <<doc>>]
    ELSE svgStorage

\* the operations that one step of a snippet's unbounded loop stands for
SpinOps == MAX_OPERATIONS \div 2

\* history: the WIDTH and HEIGHT that a statement reads in the dict
Canvas(d) == [WIDTH |-> d["WIDTH"], HEIGHT |-> d["HEIGHT"]]

\* py.run, one statement of the snippet: its effect on the namespace dict,
\* on whatever sys.stdout is now, and on the svg slot; or the exception
ExecStmt(t) ==
    LET me == tasks[t]
        s == me.code.stmts[me.ip]
        d == namespaces[me.namespace]
        bound == "x" \in DOMAIN d
        look == IF me.ip = 1 THEN <<Canvas(d)>> ELSE me.seen
        step == [tasks EXCEPT ![t].ip = me.ip + 1, ![t].seen = look,
                              ![t].ops = me.ops + 1]
        assign(v) == [step EXCEPT ![t].assigned = Put(me.assigned, "x", v)]
        fail == [step EXCEPT ![t].raised = TRUE]
        board == tasks[t].name
    IN /\ me.pc = "py_run"
       /\ ~me.raised
       /\ me.ip <= Len(me.code.stmts)
       /\ CASE s.op = "set" ->
                 /\ namespaces' = [namespaces EXCEPT ![me.namespace] = Put(d, "x", s.arg)]
                 /\ tasks' = Disturb(assign(s.arg), t, board)
                 /\ UNCHANGED <<bufs, realOut, svgStorage>>
            [] s.op = "bump" ->
                 /\ namespaces' = [namespaces EXCEPT ![me.namespace] =
                                      Put(d, "x", (IF bound THEN d["x"] ELSE 0) + 1)]
                 /\ tasks' = Disturb(assign((IF bound THEN d["x"] ELSE 0) + 1), t, board)
                 /\ UNCHANGED <<bufs, realOut, svgStorage>>
            [] s.op = "hog" ->
                 \* the builtin call never returns: the statement has no step
                 /\ FALSE
                 /\ UNCHANGED <<tasks, namespaces, bufs, realOut, svgStorage>>
            [] s.op = "loop" ->
                 /\ me.ops < MaxSpin * SpinOps
                 /\ tasks' = [tasks EXCEPT ![t].seen = look,
                                           ![t].ops = me.ops + SpinOps]
                 /\ UNCHANGED <<namespaces, bufs, realOut, svgStorage>>
            [] s.op = "unblock" ->
                 /\ namespaces' = [namespaces EXCEPT ![me.namespace] =
                                      WithBuiltin(d, s.arg)]
                 /\ tasks' = step
                 /\ UNCHANGED <<bufs, realOut, svgStorage>>
            [] s.op = "call" ->
                 /\ tasks' = IF HasBuiltin(d, s.arg)
                       THEN [step EXCEPT ![t].reached = me.reached \cup {s.arg}]
                       ELSE fail
                 /\ UNCHANGED <<namespaces, bufs, realOut, svgStorage>>
            [] s.op = "import" ->
                 /\ tasks' = IF HasBuiltin(d, "__import__") /\ s.arg \notin BLOCKED_MODULES
                       THEN [step EXCEPT ![t].reached = me.reached \cup {s.arg}]
                       ELSE fail
                 /\ UNCHANGED <<namespaces, bufs, realOut, svgStorage>>
            [] s.op = "setw" ->
                 /\ namespaces' = [namespaces EXCEPT ![me.namespace] =
                                      Put(d, "WIDTH", s.arg)]
                 /\ tasks' = step
                 /\ UNCHANGED <<bufs, realOut, svgStorage>>
            [] s.op = "print" ->
                 /\ bufs' = IF bound /\ sysStdout \in DOMAIN bufs
                       THEN [bufs EXCEPT ![sysStdout] = Append(@, d["x"])] ELSE bufs
                 /\ realOut' = IF bound /\ sysStdout = 0
                       THEN Append(realOut, d["x"]) ELSE realOut
                 /\ tasks' = IF bound
                       THEN [step EXCEPT ![t].printed = Append(me.printed, d["x"])]
                       ELSE fail
                 /\ UNCHANGED <<namespaces, svgStorage>>
            [] s.op = "svg" ->
                 /\ svgStorage' = CallSvg(d, s.arg)
                 /\ tasks' = [step EXCEPT ![t].drew = <<s.arg>>]
                 /\ UNCHANGED <<namespaces, bufs, realOut>>
            [] s.op = "svgx" ->
                 /\ svgStorage' = IF bound THEN CallSvg(d, SvgDoc(10, 10, d["x"]))
                                  ELSE svgStorage
                 /\ tasks' = IF bound
                       THEN [step EXCEPT ![t].drew = <<SvgDoc(10, 10, d["x"])>>]
                       ELSE fail
                 /\ UNCHANGED <<namespaces, bufs, realOut>>
            [] s.op = "raise" ->
                 /\ tasks' = fail
                 /\ UNCHANGED <<namespaces, bufs, realOut, svgStorage>>
       /\ UNCHANGED <<boards, wlock, sysStdout, clock, events, ncalls, budget,
                   eventBy, committed, creator, lastExec, menu, rhai, raster,
                   sse, disk, probe, snap, gil>>

\* history: what execute_python read from the svg slot and from the StringIO
Captured(slot, text) == [svg_content |-> slot, stdout |-> text]

\* whiteboard, lines 119-165, for the ExecResult or error of execute_python:
\* where the call goes next and what it holds
AfterExec(me, raised, out, slot) ==
    IF raised
    THEN [me EXCEPT !.pc = "done", !.stdout = out,
                    !.resp = ToolError("python", "Python error", out)]
    ELSE IF slot = <<>>
    THEN [me EXCEPT !.pc = "commit_namespace", !.stdout = out]
    ELSE IF ~svg_to_png(slot[1]).ok
    THEN [me EXCEPT !.pc = "done", !.stdout = out, !.svg_content = slot[1],
                    !.resp = ToolError("render", svg_to_png(slot[1]).err, <<>>)]
    ELSE [me EXCEPT !.pc = "commit", !.stdout = out, !.svg_content = slot[1],
                    !.png_bytes = svg_to_png(slot[1]).png, !.now = clock]

\* ExecFinish saving the namespace and a fresh updated_at before it looks at
\* the result, so also on the error returns
ExecFinishSavesFirst(t) ==
    LET me == tasks[t]
        next == AfterExec(me, me.raised, bufs[me.id], svgStorage[me.id])
    IN /\ me.pc = "py_run"
       /\ me.raised \/ me.ip > Len(me.code.stmts)
       /\ sysStdout' = me.old_stdout
       /\ bufs' = Drop(bufs, me.id)
       /\ svgStorage' = Drop(svgStorage, me.id)
       /\ tasks' = [tasks EXCEPT ![t] =
                       [next EXCEPT !.out = <<Captured(svgStorage[me.id], bufs[me.id])>>]]
       /\ boards' = [boards EXCEPT ![me.name] =
                        [@ EXCEPT !.namespace = me.namespace, !.updated_at = clock]]
       /\ clock' = clock + 1
       /\ lastExec' = Leave(t, ~me.raised)
       /\ UNCHANGED <<wlock, namespaces, realOut, events, ncalls, budget, eventBy,
                   committed, creator, menu, rhai, raster,
                   sse, disk, probe, snap, gil>>

\* execute_python, lines 177-207, then whiteboard up to its next await:
\* stdout is restored, the captured text and the svg slot are read, the
\* result is matched, the svg rendered and the clock sampled
ExecFinish(t) ==
    LET me == tasks[t]
        next == AfterExec(me, me.raised, bufs[me.id], svgStorage[me.id])
    IN /\ me.pc = "py_run"
       /\ me.raised \/ me.ip > Len(me.code.stmts)
       /\ sysStdout' = me.old_stdout
       /\ bufs' = Drop(bufs, me.id)
       /\ svgStorage' = Drop(svgStorage, me.id)
       /\ tasks' = [tasks EXCEPT ![t] =
                       [next EXCEPT !.out = <<Captured(svgStorage[me.id], bufs[me.id])>>]]
       /\ clock' = IF next.pc = "commit" THEN clock + 1 ELSE clock
       /\ lastExec' = Leave(t, ~me.raised)
       /\ UNCHANGED <<boards, wlock, namespaces, realOut, events, ncalls, budget,
                   eventBy, committed, creator, menu, rhai, raster,
                   sse, disk, probe, snap, gil>>

\* -------------------------------------------------------------------- commit
\* PushHistory without the eviction of lines 174-176
PushHistoryNoEvict(board) ==
    IF is_empty(board.svg) THEN board.history
    ELSE Append(board.history,
                [svg |-> board.svg, png |-> board.png, timestamp |-> board.updated_at])

\* PushHistory evicting the newest snapshot instead of the oldest
PushHistoryEvictNewest(board) ==
    IF is_empty(board.svg) THEN board.history
    ELSE Append(IF Len(board.history) >= MAX_HISTORY
                THEN SubSeq(board.history, 1, Len(board.history) - 1)
                ELSE board.history,
                [svg |-> board.svg, png |-> board.png, timestamp |-> board.updated_at])

\* lines 172-182: the render being replaced is pushed onto history, the
\* oldest snapshot making room when history is full
PushHistory(board) ==
    IF is_empty(board.svg) THEN board.history
    ELSE Append(IF Len(board.history) >= MAX_HISTORY THEN Tail(board.history)
                ELSE board.history,
                [svg |-> board.svg, png |-> board.png, timestamp |-> board.updated_at])

\* CommitBoard that assigns the new png before archiving, so the snapshot
\* pairs the replaced svg with the new png
CommitBoardArchivesNewPng(board, svg, png, ns, w, h, now) ==
    [board EXCEPT !.history = IF is_empty(board.svg) THEN board.history
                              ELSE [PushHistory(board) EXCEPT
                                       ![Len(PushHistory(board))].png = png],
                  !.svg = svg, !.png = png,
                  !.namespace = ns, !.width = w, !.height = h, !.updated_at = now]

\* CommitBoard without the assignment of line 184
CommitBoardKeepsPng(board, svg, png, ns, w, h, now) ==
    [board EXCEPT !.history = PushHistory(board), !.svg = svg,
                  !.namespace = ns, !.width = w, !.height = h, !.updated_at = now]

\* CommitBoard that overwrites the render without archiving it
CommitBoardNoArchive(board, svg, png, ns, w, h, now) ==
    [board EXCEPT !.svg = svg, !.png = png,
                  !.namespace = ns, !.width = w, !.height = h, !.updated_at = now]

\* CommitBoard that leaves updated_at as it was
CommitBoardStaleTime(board, svg, png, ns, w, h, now) ==
    [board EXCEPT !.history = PushHistory(board), !.svg = svg, !.png = png,
                  !.namespace = ns, !.width = w, !.height = h]

\* lines 172-188: the board after the commit of a render
CommitBoard(board, svg, png, ns, w, h, now) ==
    [board EXCEPT !.history = PushHistory(board), !.svg = svg, !.png = png,
                  !.namespace = ns, !.width = w, !.height = h, !.updated_at = now]

\* CommitNamespaceBoard that also archives the current render
CommitNamespaceBoardArchives(board, ns, now) ==
    [board EXCEPT !.history = PushHistory(board), !.namespace = ns, !.updated_at = now]

\* lines 139-142: the board after a commit without an image
CommitNamespaceBoard(board, ns, now) ==
    [board EXCEPT !.namespace = ns, !.updated_at = now]

\* lines 131-143: no svg() call was made; the namespace and a fresh
\* updated_at are stored under the write guard and the note is returned
CommitNamespaceOnly(t) ==
    LET me == tasks[t]
        done == [tasks EXCEPT ![t].pc = "done",
                    ![t].resp = Success("note",
                        "Code executed successfully but svg() was not called.",
                        me.stdout, <<>>)]
    IN /\ me.pc = "commit_namespace"
       /\ wlock = 0
       /\ IF me.name \in DOMAIN boards
          THEN /\ boards' = [boards EXCEPT ![me.name] =
                                CommitNamespaceBoard(@, me.namespace, clock)]
               /\ clock' = clock + 1
               /\ tasks' = MarkOthers(done, t, me.name)
               /\ snap' = [snap EXCEPT ![me.name].updated_at = clock]
          ELSE /\ tasks' = done
               /\ UNCHANGED <<boards, clock, snap>>
       /\ UNCHANGED <<wlock, namespaces, sysStdout, bufs, svgStorage, realOut,
                   events, ncalls, budget, eventBy, committed, creator, lastExec,
                   menu, rhai, raster,
                   sse, disk, probe, gil>>

\* Commit with the store left out: the task goes on to send its event
\* while the board still shows the state before the commit
CommitNotStored(t) ==
    LET me == tasks[t]
        go == [tasks EXCEPT ![t].pc = "broadcast",
                  ![t].commit_no = IF me.name \in DOMAIN committed
                                   THEN Len(committed[me.name]) + 1 ELSE 0]
    IN /\ me.pc = "commit"
       /\ wlock = 0
       /\ tasks' = go
       /\ UNCHANGED <<boards, committed>>
       /\ UNCHANGED <<wlock, namespaces, sysStdout, bufs, svgStorage, realOut, clock,
                   events, ncalls, budget, eventBy, creator, lastExec, menu, rhai,
                   raster,
                   sse, disk, probe, snap, gil>>

\* lines 169-190: the render is stored under the write guard, which is
\* dropped at the end of the block; commit_no is history: the place of this
\* commit among the board's commits
Commit(t) ==
    LET me == tasks[t]
        go == [tasks EXCEPT ![t].pc = "broadcast",
                  ![t].commit_no = IF me.name \in DOMAIN committed
                                   THEN Len(committed[me.name]) + 1 ELSE 0]
    IN /\ me.pc = "commit"
       /\ wlock = 0
       /\ IF me.name \in DOMAIN boards
          THEN /\ boards' = [boards EXCEPT ![me.name] =
                     CommitBoard(@, me.svg_content, me.png_bytes, me.namespace,
                                 me.w, me.h, me.now)]
               /\ committed' = [committed EXCEPT ![me.name] =
                     Append(@, [svg |-> me.svg_content, png |-> me.png_bytes])]
               /\ tasks' = MarkOthers(go, t, me.name)
               /\ snap' = [snap EXCEPT ![me.name] =
                     Stored(me.svg_content, me.png_bytes, me.now, me.w, me.h,
                              IF is_empty(@.svg) THEN @.history_len
                              ELSE IF @.history_len < MAX_HISTORY THEN @.history_len + 1
                              ELSE MAX_HISTORY)]
          ELSE /\ tasks' = go
               /\ UNCHANGED <<boards, committed, snap>>
       /\ UNCHANGED <<wlock, namespaces, sysStdout, bufs, svgStorage, realOut, clock,
                   events, ncalls, budget, eventBy, creator, lastExec, menu, rhai,
                   raster,
                   sse, disk, probe, gil>>

\* EventType that never reports a creation
EventTypeAlwaysUpdated(is_new_board) == "Updated"

\* lines 193-197
EventType(is_new_board) == IF is_new_board THEN "Created" ELSE "Updated"

\* the two files of a board in the output directory
PngFile(name) == sanitize_filename(name) \o <<".png">>
SvgFile(name) == sanitize_filename(name) \o <<".svg">>

\* how a std::fs::write can end: with no output directory nothing is
\* written; otherwise the write succeeds or fails
WriteOutcomes == IF disk.output_dir THEN BOOLEAN ELSE {FALSE}

\* lines 205-218: the directory after the two writes
AfterWrites(name, png_ok, png, svg_ok, svg) ==
    LET f1 == IF png_ok THEN Put(disk.files, PngFile(name), <<png>>) ELSE disk.files
        f2 == IF svg_ok THEN Put(f1, SvgFile(name), <<svg>>) ELSE f1
    IN [disk EXCEPT !.files = f2]

\* the success response of lines 220-251 with the paths of the files that
\* were written
ImageResponse(me, png_ok, svg_ok) ==
    [Success("image", "Board", me.stdout, me.png_bytes) EXCEPT
        !.png_path = IF png_ok THEN <<PngFile(me.name)>> ELSE <<>>,
        !.svg_path = IF svg_ok THEN <<SvgFile(me.name)>> ELSE <<>>]

\* lines 193-201: the BoardEvent is sent on the broadcast channel
Broadcast(t) ==
    LET me == tasks[t]
    IN /\ me.pc = "broadcast"
       /\ events' = Append(events, [board_name |-> me.name,
                                    event_type |-> EventType(me.is_new_board)])
       /\ eventBy' = Append(eventBy, me.id)
       /\ tasks' = [tasks EXCEPT ![t].pc = "write_files"]
       /\ UNCHANGED <<boards, wlock, namespaces, sysStdout, bufs, svgStorage,
                   realOut, clock, ncalls, budget, committed, creator, lastExec,
                   menu, rhai, raster, sse, disk, probe, snap, gil>>

\* WriteFiles with a failed write failing the call
WriteFilesFatal(t) ==
    LET me == tasks[t]
    IN /\ me.pc = "write_files"
       /\ \E png_ok \in WriteOutcomes, svg_ok \in WriteOutcomes :
             /\ disk' = AfterWrites(me.name, png_ok, me.png_bytes, svg_ok, me.svg_content)
             /\ tasks' = [tasks EXCEPT ![t].pc = "done",
                   ![t].wrote = [png |-> png_ok, svg |-> svg_ok],
                   ![t].resp = IF disk.output_dir /\ ~(png_ok /\ svg_ok)
                               THEN ToolError("files", "Failed to write", me.stdout)
                               ELSE ImageResponse(me, png_ok, svg_ok)]
       /\ UNCHANGED <<boards, wlock, namespaces, sysStdout, bufs, svgStorage,
                   realOut, clock, events, ncalls, budget, eventBy, committed, creator,
                   lastExec, menu, rhai, raster, sse, probe, snap, gil>>

\* lines 203-251: the two files are written when an output directory is
\* configured (a failure is logged), and the response is built: the image,
\* the header with the paths of the files written, the stdout section, the
\* snippet
WriteFiles(t) ==
    LET me == tasks[t]
    IN /\ me.pc = "write_files"
       /\ \E png_ok \in WriteOutcomes, svg_ok \in WriteOutcomes :
             /\ disk' = AfterWrites(me.name, png_ok, me.png_bytes, svg_ok, me.svg_content)
             /\ tasks' = [tasks EXCEPT ![t].pc = "done",
                   ![t].wrote = [png |-> png_ok, svg |-> svg_ok],
                   ![t].resp = ImageResponse(me, png_ok, svg_ok)]
       /\ UNCHANGED <<boards, wlock, namespaces, sysStdout, bufs, svgStorage,
                   realOut, clock, events, ncalls, budget, eventBy, committed, creator,
                   lastExec, menu, rhai, raster, sse, probe, snap, gil>>

\* the response has been handed to the transport; the task is free again
Return(t) ==
    /\ tasks[t].pc = "done"
    /\ tasks' = [tasks EXCEPT ![t] = IdleTask]
    /\ UNCHANGED <<boards, wlock, namespaces, sysStdout, bufs, svgStorage,
                   realOut, clock, events, ncalls, budget, eventBy, committed,
                   creator, lastExec, menu, rhai, raster,
                   sse, disk, probe, snap, gil>>

Next ==
    \/ \E t \in Tasks, req \in menu : Call(t, req)
    \/ \E t \in Tasks : GetExisting(t)
    \/ \E t \in Tasks : BeginCreate(t)
    \/ \E t \in Tasks : CreateNamespaceOk(t)
    \/ \E t \in Tasks : CreateNamespaceErr(t)
    \/ \E t \in Tasks : ExecSetup(t)
    \/ \E t \in Tasks : ExecStmt(t)
    \/ \E t \in Tasks : ExecFinish(t)
    \/ \E t \in Tasks : CommitNamespaceOnly(t)
    \/ \E t \in Tasks : Commit(t)
    \/ \E t \in Tasks : Broadcast(t)
    \/ \E t \in Tasks : WriteFiles(t)
    \/ \E t \in Tasks : Return(t)

Spec == Init /\ [][Next]_vars

\* ------------------------------------------------------------ the gallery
\* An HTTP response of the gallery: the status and the body
Response(status, body) == [status |-> status, body |-> body]

\* board_png, lines 163-178: the board's png when the board exists and the
\* png is not empty, otherwise 404
board_png(name) ==
    IF name \in DOMAIN boards /\ boards[name].png # <<>>
    THEN Response(200, <<boards[name].png>>)
    ELSE Response(404, <<>>)

\* board_svg that serves whatever svg the board holds
board_svgAnySvg(name) ==
    IF name \in DOMAIN boards
    THEN Response(200, <<boards[name].svg>>)
    ELSE Response(404, <<>>)

\* board_svg, lines 180-195: the same with the svg
board_svg(name) ==
    IF name \in DOMAIN boards /\ ~is_empty(boards[name].svg)
    THEN Response(200, <<boards[name].svg>>)
    ELSE Response(404, <<>>)

\* gallery.rs lines 29-30: the boards' names, the board updated last first
\* (sort_by_key with Reverse(updated_at))
NewestFirst ==
    LET D == DOMAIN boards
    IN CHOOSE s \in [1..Cardinality(D) -> D] :
          /\ \A i, j \in 1..Cardinality(D) : i # j => s[i] # s[j]
          /\ \A i, j \in 1..Cardinality(D) :
                i < j => boards[s[i]].updated_at >= boards[s[j]].updated_at

\* server.rs lines 277-278: the boards' names, the board created first first
\* (sort_by_key with created_at)
OldestFirst ==
    LET D == DOMAIN boards
    IN CHOOSE s \in [1..Cardinality(D) -> D] :
          /\ \A i, j \in 1..Cardinality(D) : i # j => s[i] # s[j]
          /\ \A i, j \in 1..Cardinality(D) :
                i < j => boards[s[i]].created_at <= boards[s[j]].created_at

\* gallery_index, lines 25-84: under the read guard, one card per board,
\* the board updated last first
gallery_index ==
    LET order == NewestFirst
    IN [i \in 1..Len(order) |->
          LET board == boards[order[i]]
          IN [name |-> board.name, has_image |-> board.png # <<>>,
              w |-> board.width, h |-> board.height, updated |-> board.updated_at]]

\* board_detail, lines 87-161: under the read guard, the page of one board
board_detail(name) ==
    IF name \notin DOMAIN boards
    THEN [found |-> FALSE, img |-> <<>>, svg |-> <<>>, w |-> 0, h |-> 0,
          updated |-> 0, history_len |-> 0]
    ELSE LET board == boards[name]
         IN [found |-> TRUE, img |-> board.png, svg |-> <<board.svg>>,
             w |-> board.width, h |-> board.height, updated |-> board.updated_at,
             history_len |-> Len(board.history)]

\* whiteboard_list, server.rs lines 271-292: under the read guard, one
\* BoardSummary per board, the board created first first
whiteboard_list ==
    LET order == OldestFirst
    IN [i \in 1..Len(order) |->
          LET b == boards[order[i]]
          IN [name |-> b.name, width |-> b.width, height |-> b.height,
              created |-> b.created_at, updated |-> b.updated_at,
              history_len |-> Len(b.history), png |-> b.png]]

\* the names that clients ask the gallery for: the boards of the requests
\* and a name that no request uses
GalleryNames == {NameA, NameB, <<"c">>}

\* ------------------------------------------------------ the two executors
\* The host of the WASM module keeps a board's scope between executions:
\* the scope text of a result without error replaces the stored one.
HostStore(store, result) == IF result.error = <<>> THEN result.scope ELSE store

\* One execution on the edge function's instance: execute runs to its end
\* (WASM has one thread), then the host stores the scope.
RhaiExecute(code, size) ==
    /\ rhai.runs < MaxRuns
    /\ LET e == execute(code, rhai.store, size[1], size[2], rhai)
           prev == IF rhai.last = <<>> THEN LeftBy(TRUE, TRUE, <<>>)
                   ELSE LeftBy(rhai.last[1].result.error = <<>>, TRUE,
                               rhai.last[1].assigned)
       IN rhai' = [SVG_CONTENT |-> e.SVG_CONTENT,
                   STDOUT_BUF |-> e.STDOUT_BUF,
                   store |-> HostStore(rhai.store, e.result),
                   runs |-> rhai.runs + 1,
                   last |-> << [code |-> code, size |-> size, scope_json |-> rhai.store,
                                result |-> e.result,
                                started |-> e.started, ran |-> e.ran,
                                assigned |-> e.assigned, printed |-> e.printed,
                                drew |-> e.drew,
                                prev |-> prev] >>]
    /\ UNCHANGED <<boards, wlock, namespaces, sysStdout, bufs, svgStorage, realOut,
                   clock, events, tasks, ncalls, budget, eventBy, committed,
                   creator, lastExec, menu, raster,
                   sse, disk, probe, snap, gil>>

\* The requests of the behaviours that exercise the executors
ExecRequests ==
    { Request(NameA, c, NoneOpt, NoneOpt) : c \in {SnipDraw, SnipNote, SnipPrintCrash} }
    \cup { Request(NameA, SnipDims, Some(1024), Some(768)) }
    \cup { Request(NameB, SnipLoop, NoneOpt, NoneOpt) }
    \cup { Request(NameA, c, NoneOpt, NoneOpt) : c \in {SnipEscape, SnipOpen, SnipImport} }
    \cup { Request(NameB, SnipNul, NoneOpt, NoneOpt) }

InitExec ==
    /\ boards = <<>>
    /\ wlock = 0
    /\ namespaces = <<>>
    /\ sysStdout = 0
    /\ bufs = <<>>
    /\ svgStorage = <<>>
    /\ realOut = <<>>
    /\ clock = 1
    /\ events = <<>>
    /\ tasks = [t \in Tasks |-> IdleTask]
    /\ ncalls = 0
    /\ budget = MaxCalls
    /\ eventBy = <<>>
    /\ committed = <<>>
    /\ creator = <<>>
    /\ lastExec = <<>>
    /\ menu = ExecRequests
    /\ rhai = RhaiBoot
    /\ raster = NoRaster
    /\ sse = NoSse
    /\ disk = NoDisk
    /\ probe = NoProbe
    /\ snap = <<>>
    /\ gil = 0

\* A behaviour is one of the MCP server (the Python executor) or one of the
\* edge function (the Rhai executor); the two run in different processes.
NextExec ==
    \/ \E t \in Tasks, req \in menu : rhai = RhaiBoot /\ Call(t, req)
    \/ \E t \in Tasks : GetExisting(t)
    \/ \E t \in Tasks : BeginCreate(t)
    \/ \E t \in Tasks : CreateNamespaceOk(t)
    \/ \E t \in Tasks : CreateNamespaceErr(t)
    \/ \E t \in Tasks : ExecSetup(t)
    \/ \E t \in Tasks : ExecStmt(t)
    \/ \E t \in Tasks : ExecFinish(t)
    \/ \E t \in Tasks : CommitNamespaceOnly(t)
    \/ \E t \in Tasks : Commit(t)
    \/ \E t \in Tasks : Broadcast(t)
    \/ \E t \in Tasks : WriteFiles(t)
    \/ \E t \in Tasks : Return(t)
    \/ \E code \in RhaiScripts, size \in RhaiSizes :
          ncalls = 0 /\ RhaiExecute(code, size)

SpecExec == InitExec /\ [][NextExec]_vars

\* ------------------------------------------------ with an output directory
\* AppState::new with output_dir = Some(dir), the directory empty
EmptyDir == [output_dir |-> TRUE, files |-> <<>>]

\* the requests of the behaviours with an output directory
FileRequests ==
    { Request(NameA, SnipDraw, NoneOpt, NoneOpt),
      Request(<<"a", " ", "b">>, SnipDraw, NoneOpt, NoneOpt),
      Request(<<"a", "_", "b">>, SnipDraw, NoneOpt, NoneOpt),
      Request(NameA, SnipNote, NoneOpt, NoneOpt) }

InitFiles ==
    /\ boards = <<>>
    /\ wlock = 0
    /\ namespaces = <<>>
    /\ sysStdout = 0
    /\ bufs = <<>>
    /\ svgStorage = <<>>
    /\ realOut = <<>>
    /\ clock = 1
    /\ events = <<>>
    /\ tasks = [t \in Tasks |-> IdleTask]
    /\ ncalls = 0
    /\ budget = MaxCalls
    /\ eventBy = <<>>
    /\ committed = <<>>
    /\ creator = <<>>
    /\ lastExec = <<>>
    /\ menu = FileRequests
    /\ rhai = RhaiBoot
    /\ raster = NoRaster
    /\ sse = NoSse
    /\ disk = EmptyDir
    /\ probe = NoProbe
    /\ snap = <<>>
    /\ gil = 0

SpecFiles == InitFiles /\ [][Next]_vars

\* ------------------------------------------------------- svg_to_png alone
\* the integer sizes of the documents handed to svg_to_png
RenderSizes == {0, 1, 2, 100, MAX_DIMENSION - 1, MAX_DIMENSION, MAX_DIMENSION + 1, 10000}

\* the documents: every pair of sizes, the empty string, and a text that is
\* no SVG
RenderDocs ==
    {SvgDoc(w, h, 1) : w \in RenderSizes, h \in RenderSizes}
    \cup {EmptyString, [text |-> "not svg at all", width |-> 0, height |-> 0, body |-> 0]}

InitRender ==
    /\ boards = <<>>
    /\ wlock = 0
    /\ namespaces = <<>>
    /\ sysStdout = 0
    /\ bufs = <<>>
    /\ svgStorage = <<>>
    /\ realOut = <<>>
    /\ clock = 1
    /\ events = <<>>
    /\ tasks = [t \in Tasks |-> IdleTask]
    /\ ncalls = 0
    /\ budget = 0
    /\ eventBy = <<>>
    /\ committed = <<>>
    /\ creator = <<>>
    /\ lastExec = <<>>
    /\ menu = {}
    /\ rhai = RhaiBoot
    /\ raster \in {[doc |-> <<d>>, result |-> <<>>] : d \in RenderDocs}
    /\ sse = NoSse
    /\ disk = NoDisk
    /\ probe = NoProbe
    /\ snap = <<>>
    /\ gil = 0

\* svg_to_png is applied to the document
Render ==
    /\ raster.doc # <<>>
    /\ raster.result = <<>>
    /\ raster' = [raster EXCEPT !.result = <<svg_to_png(raster.doc[1])>>]
    /\ UNCHANGED <<boards, wlock, namespaces, sysStdout, bufs, svgStorage, realOut,
                   clock, events, tasks, ncalls, budget, eventBy, committed,
                   creator, lastExec, menu, rhai,
                   sse, disk, probe, snap, gil>>

NextRender == Render

SpecRender == InitRender /\ [][NextRender]_vars

\* ------------------------------------------- the broadcast channel alone
\* The channel of AppState::new (capacity 64) and one gallery client.  The
\* k-th event sent is named k.  tail counts the events the channel has
\* stored, next is the subscriber's position; the channel keeps the last
\* BROADCAST_CAPACITY events it stored.
\* history: last is the event delivered last, delivered and skipped count
\* events, ordered says that every event delivered was sent after the one
\* delivered before it, behind is how far the subscriber was behind when it
\* last skipped.

\* whiteboard, lines 193-201: event_tx.send; with no receiver the send
\* fails, the result is dropped and the event is lost
SseSend ==
    /\ sse.total < MaxSent
    /\ sse' = IF sse.subscribed
              THEN [sse EXCEPT !.total = @ + 1, !.tail = @ + 1]
              ELSE [sse EXCEPT !.total = @ + 1]
    /\ UNCHANGED <<boards, wlock, namespaces, sysStdout, bufs, svgStorage, realOut,
                   clock, events, tasks, ncalls, budget, eventBy, committed,
                   creator, lastExec, menu, rhai, raster, disk, probe, snap, gil>>

\* sse_handler, lines 200-213: event_tx.subscribe; the stream starts at the
\* channel's tail
SseSubscribe ==
    /\ ~sse.subscribed
    /\ sse' = [sse EXCEPT !.subscribed = TRUE, !.open = TRUE, !.since = sse.total,
                          !.next = sse.tail]
    /\ UNCHANGED <<boards, wlock, namespaces, sysStdout, bufs, svgStorage, realOut,
                   clock, events, tasks, ncalls, budget, eventBy, committed,
                   creator, lastExec, menu, rhai, raster, disk, probe, snap, gil>>

\* SsePoll with a lag that ends the stream
SsePollLagFatal ==
    /\ sse.subscribed /\ sse.open
    /\ sse.next < sse.tail
    /\ sse' = IF sse.tail - sse.next > BROADCAST_CAPACITY
              THEN [sse EXCEPT !.open = FALSE]
              ELSE [sse EXCEPT !.next = @ + 1, !.last = sse.since + sse.next + 1,
                               !.delivered = @ + 1,
                               !.ordered = @ /\ sse.since + sse.next + 1 > sse.last]
    /\ UNCHANGED <<boards, wlock, namespaces, sysStdout, bufs, svgStorage, realOut,
                   clock, events, tasks, ncalls, budget, eventBy, committed,
                   creator, lastExec, menu, rhai, raster, disk, probe, snap, gil>>

\* sse_handler, lines 201-212: one poll of the stream with an item ready.
\* When the subscriber's next event has been overwritten the receiver
\* reports the lag and moves to the oldest event the channel still holds;
\* filter_map turns the report into nothing.  Otherwise the next event is
\* turned into an SSE message.
SsePoll ==
    /\ sse.subscribed /\ sse.open
    /\ sse.next < sse.tail
    /\ sse' = IF sse.tail - sse.next > BROADCAST_CAPACITY
              THEN [sse EXCEPT !.next = sse.tail - BROADCAST_CAPACITY,
                               !.skipped = @ + (sse.tail - BROADCAST_CAPACITY - sse.next),
                               !.behind = sse.tail - sse.next]
              ELSE [sse EXCEPT !.next = @ + 1, !.last = sse.since + sse.next + 1,
                               !.delivered = @ + 1,
                               !.ordered = @ /\ sse.since + sse.next + 1 > sse.last]
    /\ UNCHANGED <<boards, wlock, namespaces, sysStdout, bufs, svgStorage, realOut,
                   clock, events, tasks, ncalls, budget, eventBy, committed,
                   creator, lastExec, menu, rhai, raster, disk, probe, snap, gil>>

InitSse ==
    /\ boards = <<>>
    /\ wlock = 0
    /\ namespaces = <<>>
    /\ sysStdout = 0
    /\ bufs = <<>>
    /\ svgStorage = <<>>
    /\ realOut = <<>>
    /\ clock = 1
    /\ events = <<>>
    /\ tasks = [t \in Tasks |-> IdleTask]
    /\ ncalls = 0
    /\ budget = 0
    /\ eventBy = <<>>
    /\ committed = <<>>
    /\ creator = <<>>
    /\ lastExec = <<>>
    /\ menu = {}
    /\ rhai = RhaiBoot
    /\ raster = NoRaster
    /\ sse = NoSse
    /\ disk = NoDisk
    /\ probe = NoProbe
    /\ snap = <<>>
    /\ gil = 0

NextSse == SseSend \/ SseSubscribe \/ SsePoll

SpecSse == InitSse /\ [][NextSse]_vars

\* ------------------------------------------------ pure functions alone
\* arg is the name handed to a function of one name, args are the color
\* arguments handed to a color function
Probe(fn, arg) == [fn |-> fn, arg |-> arg, args |-> <<>>, result |-> <<>>]
ColorProbe(fn, args) == [fn |-> fn, arg |-> <<>>, args |-> args, result |-> <<>>]

\* the characters of the names handed to validate_board_name
NameChars == {"a", ".", " ", "/", "\n", "\r", NUL, E_ACUTE}

\* the names: every name of up to three of these characters, and names
\* around the length limit, alone and with a second rule violated
ProbeNames ==
    UNION {[1..n -> NameChars] : n \in 0..3}
    \cup {Repeat("a", MAX_NAME_LEN), Repeat("a", MAX_NAME_LEN + 1),
          Repeat(E_ACUTE, MAX_NAME_LEN \div 2), Repeat(E_ACUTE, MAX_NAME_LEN \div 2 + 1),
          Repeat("a", MAX_NAME_LEN - 1) \o <<E_ACUTE>>,
          Repeat("/", MAX_NAME_LEN + 1), Repeat("/", MAX_NAME_LEN),
          <<".">> \o Repeat("a", MAX_NAME_LEN), <<".">> \o Repeat("a", MAX_NAME_LEN - 1),
          Repeat("a", MAX_NAME_LEN - 1) \o <<" ">>, Repeat("a", MAX_NAME_LEN) \o <<" ">>}

\* validate_board_name is applied to the name
ApplyValidate ==
    /\ probe.fn = "validate_board_name" /\ probe.result = <<>>
    /\ probe' = [probe EXCEPT !.result = <<validate_board_name(probe.arg)>>]
    /\ UNCHANGED <<boards, wlock, namespaces, sysStdout, bufs, svgStorage, realOut,
                   clock, events, tasks, ncalls, budget, eventBy, committed,
                   creator, lastExec, menu, rhai, raster, sse, disk, snap, gil>>

\* the characters of the names handed to sanitize_filename
FileChars == {"a", "Z", "0", ".", "_", "-", " ", "@", E_ACUTE, SQRT_SIGN}

\* the names: every name of up to three of these characters, and "caf"
\* followed by a character of two bytes
FileNames ==
    UNION {[1..n -> FileChars] : n \in 0..3} \cup {<<"c", "a", "f", E_ACUTE>>}

\* sanitize_filename is applied to the name
ApplySanitize ==
    /\ probe.fn = "sanitize_filename" /\ probe.result = <<>>
    /\ probe' = [probe EXCEPT !.result = <<sanitize_filename(probe.arg)>>]
    /\ UNCHANGED <<boards, wlock, namespaces, sysStdout, bufs, svgStorage, realOut,
                   clock, events, tasks, ncalls, budget, eventBy, committed,
                   creator, lastExec, menu, rhai, raster, sse, disk, snap, gil>>

\* ---- the color functions of the Rhai engine
LowerHex == <<"0", "1", "2", "3", "4", "5", "6", "7", "8", "9", "a", "b", "c", "d", "e", "f">>
UpperHex == <<"0", "1", "2", "3", "4", "5", "6", "7", "8", "9", "A", "B", "C", "D", "E", "F">>
HexDigits == {LowerHex[i] : i \in 1..16} \cup {UpperHex[i] : i \in 1..16}

\* char::to_digit(16)
HexVal(c) == CHOOSE v \in 0..15 : c \in {LowerHex[v + 1], UpperHex[v + 1]}

\* u8::from_str_radix(s, 16) for the one- and two-byte pieces parse_hex hands
\* to it: an optional '+' sign, then at least one digit, all of them hex
\* digits; Err is -1
from_str_radix(s) ==
    LET digits == IF s # <<>> /\ s[1] = "+" THEN Tail(s) ELSE s
    IN IF digits = <<>> \/ \E i \in 1..Len(digits) : digits[i] \notin HexDigits
       THEN -1
       ELSE IF Len(digits) = 1 THEN HexVal(digits[1])
            ELSE 16 * HexVal(digits[1]) + HexVal(digits[2])

\* str::trim_start_matches('#'): every leading '#' is removed
trim_start_matches(s) ==
    LET rest == {i \in 1..Len(s) : s[i] # "#"}
    IN IF rest = {} THEN <<>>
       ELSE SubSeq(s, CHOOSE i \in rest : \A j \in rest : i <= j, Len(s))

\* str::is_char_boundary: byte offset b is the start of a character or the end
is_char_boundary(s, b) == \E i \in 0..Len(s) : ByteLen(SubSeq(s, 1, i)) = b

\* &s[a..b]: the characters in bytes a..b; the index operation panics
\* when a or b is not a character boundary
Slice(s, a, b) ==
    IF is_char_boundary(s, a) /\ is_char_boundary(s, b)
    THEN [ok |-> TRUE,
          chars |-> LET idx == {i \in 1..Len(s) : /\ ByteLen(SubSeq(s, 1, i - 1)) >= a
                                                  /\ ByteLen(SubSeq(s, 1, i)) <= b}
                    IN [k \in 1..Cardinality(idx) |->
                          s[(CHOOSE i \in idx : \A j \in idx : i <= j) + k - 1]]]
    ELSE [ok |-> FALSE, chars |-> <<>>]

\* the three outcomes of parse_hex
Srgba(r, g, b, a) == [kind |-> "some", r |-> r, g |-> g, b |-> b, a |-> a]
NoColor == [kind |-> "none", r |-> 0, g |-> 0, b |-> 0, a |-> 0]
Panicked == [kind |-> "panic", r |-> 0, g |-> 0, b |-> 0, a |-> 0]

\* one channel of parse_hex: the slice is taken, doubled for the 3-digit
\* form, and parsed; -2 is a panic of the slice, -1 the ? of an Err
Channel(hex, a, b, twice) ==
    LET piece == Slice(hex, a, b)
    IN IF ~piece.ok THEN -2
       ELSE from_str_radix(IF twice THEN piece.chars \o piece.chars ELSE piece.chars)

\* the channels are evaluated left to right; the first that panics or
\* fails ends the function
RECURSIVE Channels(_, _, _, _)
Channels(hex, width, n, twice) ==
    IF n = 0 THEN <<>>
    ELSE LET before == Channels(hex, width, n - 1, twice)
         IN IF before # <<>> /\ before[Len(before)] < 0 THEN before
            ELSE Append(before, Channel(hex, (n - 1) * width, n * width, twice))

\* parse_hex, lines 31-55: the match is on the length in bytes
parse_hex(hex) ==
    LET h == trim_start_matches(hex)
        n == ByteLen(h)
        cs == IF n = 3 THEN Channels(h, 1, 3, TRUE)
              ELSE IF n = 6 THEN Channels(h, 2, 3, FALSE)
              ELSE IF n = 8 THEN Channels(h, 2, 4, FALSE)
              ELSE <<-1>>
        last == cs[Len(cs)]
    IN IF last = -2 THEN Panicked
       ELSE IF last = -1 THEN NoColor
       ELSE Srgba(cs[1], cs[2], cs[3], IF n = 8 THEN cs[4] ELSE 255)

\* what a color function gives back to the script: the string
\* "!invalid color: <input>", a color string (its channels are not
\* computed, only the color it was computed from), or no return at all
\* when the function panicked, which ends the execute call
InvalidColor(input) == [kind |-> "invalid", input |-> input, of |-> <<>>]
ColorString(of) == [kind |-> "color", input |-> <<>>, of |-> of]
Aborted == [kind |-> "abort", input |-> <<>>, of |-> <<>>]

\* color_lighten, color_darken, color_saturate, color_desaturate and
\* hue_shift up to the color arithmetic
ColorAdjust(hex) ==
    LET c == parse_hex(hex)
    IN IF c.kind = "panic" THEN Aborted
       ELSE IF c.kind = "none" THEN InvalidColor(hex)
       ELSE ColorString(<<c>>)

\* color_mix, lines 210-231, up to the color arithmetic
color_mix(hex1, hex2) ==
    LET c1 == parse_hex(hex1)
        c2 == parse_hex(hex2)
    IN IF c1.kind = "panic" THEN Aborted
       ELSE IF c1.kind = "none" THEN InvalidColor(hex1)
       ELSE IF c2.kind = "panic" THEN Aborted
       ELSE IF c2.kind = "none" THEN InvalidColor(hex2)
       ELSE ColorString(<<c1, c2>>)

ColorFns ==
    {"color_lighten", "color_darken", "color_saturate", "color_desaturate", "hue_shift"}

\* the characters of the color arguments
ColorChars == {"#", "a", "F", "0", "g", "+", E_ACUTE}

\* the color arguments: every string of up to three of these characters,
\* and strings of the 6- and 8-digit forms
ColorArgs ==
    UNION {[1..n -> ColorChars] : n \in 0..3}
    \cup {<<"#", "a", "F", "0">>, <<"#", "#", "a", "F", "0">>,
          <<"a", "F", "0", "0", "a", "F">>, <<"#", "a", "F", "0", "0", "a", "F">>,
          <<"a", "F", "0", "0", "a", "F", "8", "0">>,
          <<"a", "F", "0", "0", "a", "g">>, <<"a", "F", "0", "0", "a">>,
          <<"+", "a", "+", "F", "+", "0">>,
          <<"a", "a", E_ACUTE, "a", "a">>, <<"a", E_ACUTE, "a", "a", "a">>,
          <<"g", E_ACUTE, "a", "a", "a">>, <<"a", "a", "a", "a", "a", E_ACUTE, "a">>,
          <<"a", "a", "a", "a", "a", "a", E_ACUTE>>}

\* the pairs handed to color_mix
MixArgs ==
    LET few == {<<"a", "F", "0">>, <<"#", "a", "F", "0", "0", "a", "F">>, <<"g", "g", "g">>,
                <<"a", "a">>, <<"a", E_ACUTE>>, <<"g", E_ACUTE, "a", "a", "a">>, <<>>}
    IN few \X few

\* one of the five one-color functions is applied to the argument
ApplyColor ==
    /\ probe.fn \in ColorFns /\ probe.result = <<>>
    /\ probe' = [probe EXCEPT !.result = <<ColorAdjust(probe.args[1])>>]
    /\ UNCHANGED <<boards, wlock, namespaces, sysStdout, bufs, svgStorage, realOut,
                   clock, events, tasks, ncalls, budget, eventBy, committed,
                   creator, lastExec, menu, rhai, raster, sse, disk, snap, gil>>

\* color_mix is applied to the two arguments
ApplyMix ==
    /\ probe.fn = "color_mix" /\ probe.result = <<>>
    /\ probe' = [probe EXCEPT !.result = <<color_mix(probe.args[1], probe.args[2])>>]
    /\ UNCHANGED <<boards, wlock, namespaces, sysStdout, bufs, svgStorage, realOut,
                   clock, events, tasks, ncalls, budget, eventBy, committed,
                   creator, lastExec, menu, rhai, raster, sse, disk, snap, gil>>

ProbeInputs ==
    {Probe("validate_board_name", n) : n \in ProbeNames}
    \cup {Probe("sanitize_filename", n) : n \in FileNames}
    \cup {ColorProbe(fn, <<hex>>) : fn \in ColorFns, hex \in ColorArgs}
    \cup {ColorProbe("color_mix", <<p[1], p[2]>>) : p \in MixArgs}

InitFn ==
    /\ boards = <<>>
    /\ wlock = 0
    /\ namespaces = <<>>
    /\ sysStdout = 0
    /\ bufs = <<>>
    /\ svgStorage = <<>>
    /\ realOut = <<>>
    /\ clock = 1
    /\ events = <<>>
    /\ tasks = [t \in Tasks |-> IdleTask]
    /\ ncalls = 0
    /\ budget = 0
    /\ eventBy = <<>>
    /\ committed = <<>>
    /\ creator = <<>>
    /\ lastExec = <<>>
    /\ menu = {}
    /\ rhai = RhaiBoot
    /\ raster = NoRaster
    /\ sse = NoSse
    /\ disk = NoDisk
    /\ probe \in ProbeInputs
    /\ snap = <<>>
    /\ gil = 0

NextFn ==
    \/ ApplyValidate
    \/ ApplySanitize
    \/ ApplyColor
    \/ ApplyMix

SpecFn == InitFn /\ [][NextFn]_vars

\* ---------------------------------------------------------- a long history
\* The board "a" after n calls of whiteboard("a", SnipDraw), one after the
\* other, on a fresh server: call 1 creates the board at time 1, and call k
\* draws x = k and commits it with the time k + 1 it sampled.
RECURSIVE BoardAfterDraws(_)
BoardAfterDraws(n) ==
    IF n = 0 THEN Placeholder(NameA, DefaultWidth, DefaultHeight, 1, 1)
    ELSE CommitBoard(BoardAfterDraws(n - 1), SvgDoc(10, 10, n),
                     svg_to_png(SvgDoc(10, 10, n)).png, 1,
                     DefaultWidth, DefaultHeight, n + 1)

\* The state that server is in when those SeedRenders calls have returned.
InitHist ==
    /\ boards = Put(<<>>, NameA, BoardAfterDraws(SeedRenders))
    /\ wlock = 0
    /\ namespaces = << Put(Put(create_namespace(DefaultWidth, DefaultHeight),
                               "svg", SeedRenders), "x", SeedRenders) >>
    /\ sysStdout = 0
    /\ bufs = <<>>
    /\ svgStorage = <<>>
    /\ realOut = <<>>
    /\ clock = SeedRenders + 2
    /\ events = [k \in 1..SeedRenders |->
                   [board_name |-> NameA, event_type |-> EventType(k = 1)]]
    /\ tasks = [t \in Tasks |-> IdleTask]
    /\ ncalls = SeedRenders
    /\ budget = MaxCalls
    /\ eventBy = [k \in 1..SeedRenders |-> k]
    /\ committed = Put(<<>>, NameA, [k \in 1..SeedRenders |->
                        [svg |-> SvgDoc(10, 10, k), png |-> svg_to_png(SvgDoc(10, 10, k)).png]])
    /\ creator = Put(<<>>, NameA, 1)
    /\ lastExec = << LeftBy(TRUE, TRUE, Put(<<>>, "x", SeedRenders)) >>
    /\ menu = Requests
    /\ rhai = RhaiBoot
    /\ raster = NoRaster
    /\ sse = NoSse
    /\ disk = NoDisk
    /\ probe = NoProbe
    /\ snap = Put(<<>>, NameA,
                  Stored(SvgDoc(10, 10, SeedRenders),
                           svg_to_png(SvgDoc(10, 10, SeedRenders)).png,
                           SeedRenders + 1, DefaultWidth, DefaultHeight,
                           SeedRenders - 1))
    /\ gil = 0

SpecHist == InitHist /\ [][Next]_vars

\* ------------------------------------------- the interpreter lock (Python::attach)
\* The whiteboard handler with the attachment to the interpreter made
\* explicit.  Python::attach blocks until the thread holds the interpreter;
\* the thread is detached when the closure ends, and the interpreter may
\* hand the lock to another thread between two bytecodes of a running
\* snippet.  A call into a builtin that loops by itself reaches no such point.

\* lines 89-90: the board exists; the task takes the write guard
LockExisting(t) ==
    /\ tasks[t].pc = "get_or_create"
    /\ wlock = 0
    /\ tasks[t].name \in DOMAIN boards
    /\ wlock' = t
    /\ tasks' = [tasks EXCEPT ![t].pc = "clone_ref"]
    /\ UNCHANGED <<boards, namespaces, sysStdout, bufs, svgStorage, realOut,
                   clock, events, ncalls, budget, eventBy, committed, creator,
                   lastExec, menu, rhai, raster,
                   sse, disk, probe, snap, gil>>

\* lines 91-92, 115: attached, the task clones the handle; the guard is dropped
CloneRef(t) ==
    /\ tasks[t].pc = "clone_ref"
    /\ gil = t
    /\ wlock' = 0
    /\ tasks' = [tasks EXCEPT ![t].pc = "run_python",
                              ![t].namespace = boards[tasks[t].name].namespace,
                              ![t].is_new_board = FALSE]
    /\ UNCHANGED <<boards, namespaces, sysStdout, bufs, svgStorage, realOut,
                   clock, events, ncalls, budget, eventBy, committed, creator,
                   lastExec, menu, rhai, raster,
                   sse, disk, probe, snap, gil>>

\* the positions of whiteboard() that run inside Python::attach
AttachedPcs == {"clone_ref", "create_namespace", "run_python", "py_run"}

\* task t is inside a builtin call that loops by itself
InBuiltinLoop(t) ==
    /\ tasks[t].pc = "py_run"
    /\ ~tasks[t].raised
    /\ tasks[t].ip <= Len(tasks[t].code.stmts)
    /\ tasks[t].code.stmts[tasks[t].ip].op = "hog"

\* Python::attach (server.rs 91, 98; python.rs 218, 230): the thread gets
\* the interpreter when no other thread holds it
Attach(t) ==
    /\ tasks[t].pc \in AttachedPcs
    /\ gil = 0
    /\ gil' = t
    /\ UNCHANGED <<boards, wlock, namespaces, sysStdout, bufs, svgStorage, realOut,
                   clock, events, tasks, ncalls, budget, eventBy, committed, creator,
                   lastExec, menu, rhai, raster,
                   sse, disk, probe, snap>>

\* the closure of Python::attach ends, or the interpreter switches threads
\* between two bytecodes
Detach(t) ==
    /\ gil = t
    /\ ~InBuiltinLoop(t)
    /\ gil' = 0
    /\ UNCHANGED <<boards, wlock, namespaces, sysStdout, bufs, svgStorage, realOut,
                   clock, events, tasks, ncalls, budget, eventBy, committed, creator,
                   lastExec, menu, rhai, raster,
                   sse, disk, probe, snap>>

\* the steps of task t that run attached to the interpreter
Attached(t) ==
    /\ gil = t
    /\ \/ CloneRef(t)
       \/ CreateNamespaceOk(t)
       \/ CreateNamespaceErr(t)
       \/ ExecSetup(t)
       \/ ExecStmt(t)
       \/ ExecFinish(t)

\* the steps of task t that run in the async handler, detached
Detached(t) ==
    /\ gil # t
    /\ \/ LockExisting(t)
       \/ BeginCreate(t)
       \/ CommitNamespaceOnly(t)
       \/ Commit(t)
       \/ Broadcast(t)
       \/ WriteFiles(t)
       \/ Return(t)

LiveRequests ==
    { Request(NameA, SnipDraw, NoneOpt, NoneOpt),
      Request(NameA, SnipNote, NoneOpt, NoneOpt),
      Request(NameB, SnipHog, NoneOpt, NoneOpt) }

InitLive ==
    /\ boards = <<>>
    /\ wlock = 0
    /\ namespaces = <<>>
    /\ sysStdout = 0
    /\ bufs = <<>>
    /\ svgStorage = <<>>
    /\ realOut = <<>>
    /\ clock = 1
    /\ events = <<>>
    /\ tasks = [t \in Tasks |-> IdleTask]
    /\ ncalls = 0
    /\ budget = MaxCalls
    /\ eventBy = <<>>
    /\ committed = <<>>
    /\ creator = <<>>
    /\ lastExec = <<>>
    /\ menu = LiveRequests
    /\ rhai = RhaiBoot
    /\ raster = NoRaster
    /\ sse = NoSse
    /\ disk = NoDisk
    /\ probe = NoProbe
    /\ snap = <<>>
    /\ gil = 0

NextLive ==
    \/ \E t \in Tasks, req \in menu : Call(t, req)
    \/ \E t \in Tasks : gil # t /\ LockExisting(t)
    \/ \E t \in Tasks : gil # t /\ BeginCreate(t)
    \/ \E t \in Tasks : Attach(t)
    \/ \E t \in Tasks : Detach(t)
    \/ \E t \in Tasks : gil = t /\ CloneRef(t)
    \/ \E t \in Tasks : gil = t /\ CreateNamespaceOk(t)
    \/ \E t \in Tasks : gil = t /\ CreateNamespaceErr(t)
    \/ \E t \in Tasks : gil = t /\ ExecSetup(t)
    \/ \E t \in Tasks : gil = t /\ ExecStmt(t)
    \/ \E t \in Tasks : gil = t /\ ExecFinish(t)
    \/ \E t \in Tasks : gil # t /\ CommitNamespaceOnly(t)
    \/ \E t \in Tasks : gil # t /\ Commit(t)
    \/ \E t \in Tasks : gil # t /\ Broadcast(t)
    \/ \E t \in Tasks : gil # t /\ WriteFiles(t)
    \/ \E t \in Tasks : gil # t /\ Return(t)

\* The tokio runtime polls every ready task and runs every spawn_blocking
\* closure; a thread waiting in Python::attach gets the interpreter once it
\* is free often enough; an attached thread runs before it is switched out.
FairLive ==
    \A t \in Tasks :
        /\ WF_vars(Detached(t))
        /\ WF_vars(Detach(t))
        /\ SF_vars(Attach(t))
        /\ SF_vars(Attached(t))

SpecLive == InitLive /\ [][NextLive]_vars /\ FairLive


\* ================================================================== claims
Min(a, b) == IF a < b THEN a ELSE b
InFlight(t) == tasks[t].pc \notin {"idle", "done"}
Returned(t, kind, stage) ==
    tasks[t].pc = "done" /\ tasks[t].resp.kind = kind /\ tasks[t].resp.stage = stage

\* C1: in every reachable state and for every board, png is empty exactly
\* when svg is empty (after the placeholder insert, after a render commit,
\* after a namespace-only commit and after a failed call).
C1_PngEmptyIffSvgEmpty ==
    \A n \in DOMAIN boards : (boards[n].png = <<>>) <=> is_empty(boards[n].svg)

\* A call that passed the empty string to svg() has failed on a board that
\* is still the placeholder, while another board holds a render.
C1_Witness ==
    /\ \E t \in Tasks : /\ Returned(t, "tool_error", "render")
                        /\ is_empty(tasks[t].svg_content)
                        /\ tasks[t].name \in DOMAIN boards
                        /\ boards[tasks[t].name].png = <<>>
    /\ \E n \in DOMAIN boards : boards[n].png # <<>>

\* C2: for every board, history never holds more than 50 snapshots,
\* whatever the calls and however they overlap.
C2_HistoryBounded ==
    \A n \in DOMAIN boards : Len(boards[n].history) <= MAX_HISTORY

\* Two overlapping calls have both committed a render to a board whose
\* history was full, so a snapshot has been evicted.
C2_Witness ==
    \E n \in DOMAIN boards :
        /\ Len(boards[n].history) = MAX_HISTORY
        /\ Len(committed[n]) >= MAX_HISTORY + 2
        /\ \A t \in Tasks : Returned(t, "success", "image") /\ tasks[t].name = n

\* C3: after N successful renders to a board, history holds min(N-1, 50)
\* snapshots, and they are the (svg, png) of the most recent renders that
\* were replaced, in commit order, oldest first.
C3_HistoryIsReplacedRenders ==
    \A n \in DOMAIN boards :
        LET N == Len(committed[n])
            H == boards[n].history
            K == Min(N - 1, MAX_HISTORY)
        IN IF N = 0 THEN H = <<>>
           ELSE /\ Len(H) = K
                /\ \A i \in 1..K : /\ H[i].svg = committed[n][N - 1 - K + i].svg
                                   /\ H[i].png = committed[n][N - 1 - K + i].png

\* A board has been rendered 52 times by calls that have all returned, so
\* its first render is no longer in history.
C3_Witness ==
    /\ \E n \in DOMAIN boards : Len(committed[n]) = MAX_HISTORY + 2
    /\ \A t \in Tasks : tasks[t].pc = "idle"

EventsBy(id) == {i \in 1..Len(events) : eventBy[i] = id}
CreatedFor(n) ==
    {i \in 1..Len(events) : events[i].board_name = n /\ events[i].event_type = "Created"}
HasHandle(t) == tasks[t].pc # "idle" /\ tasks[t].namespace # 0
FailedInExecOrRender(t) ==
    Returned(t, "tool_error", "python") \/ Returned(t, "tool_error", "render")

\* C4: when two calls for the same not-yet-existing name overlap, one board
\* record and one namespace are created, both calls run against that
\* namespace, exactly one of them is flagged new, and when both render
\* exactly one Created event is sent for the name.
C4_ConcurrentCreateIsAtomic ==
    /\ Len(namespaces) = Cardinality(DOMAIN boards)
    /\ \A n \in DOMAIN boards : Cardinality(CreatedFor(n)) <= 1
    /\ \A t \in Tasks : HasHandle(t) =>
          /\ tasks[t].name \in DOMAIN boards
          /\ tasks[t].namespace = boards[tasks[t].name].namespace
    /\ \A t, u \in Tasks :
          ( /\ t # u /\ HasHandle(t) /\ HasHandle(u)
            /\ tasks[t].name = tasks[u].name
            /\ tasks[t].before = <<>> /\ tasks[u].before = <<>> )
          => /\ tasks[t].is_new_board # tasks[u].is_new_board
             /\ ( Returned(t, "success", "image") /\ Returned(u, "success", "image")
                  => Cardinality(CreatedFor(tasks[t].name)) = 1 )

\* Two calls that both started before the board existed have both rendered
\* to it and neither has returned yet.
C4_Witness ==
    \E t, u \in Tasks :
        /\ t # u /\ tasks[t].name = tasks[u].name
        /\ tasks[t].before = <<>> /\ tasks[u].before = <<>>
        /\ Returned(t, "success", "image") /\ Returned(u, "success", "image")

\* C5: a call that ends in an execution error or a render error commits
\* nothing: a board that existed before the call has the svg, png, history,
\* width, height and updated_at it had (unless another call committed to it
\* meanwhile), and the call has sent no BoardEvent.
C5_FailedCallCommitsNothing ==
    \A t \in Tasks : FailedInExecOrRender(t) =>
        /\ EventsBy(tasks[t].id) = {}
        /\ (tasks[t].before # <<>> /\ ~tasks[t].interfered) =>
              LET was == tasks[t].before[1].board
                  is == boards[tasks[t].name]
              IN /\ is.svg = was.svg /\ is.png = was.png /\ is.history = was.history
                 /\ is.width = was.width /\ is.height = was.height
                 /\ is.updated_at = was.updated_at

\* A call has failed on a board that held a render before the call, and no
\* other call committed to the board meanwhile.
C5_Witness ==
    \E t \in Tasks :
        /\ FailedInExecOrRender(t)
        /\ tasks[t].before # <<>> /\ ~tasks[t].interfered
        /\ ~is_empty(tasks[t].before[1].board.svg)

\* C6: after a call that ends in an execution error or a render error, the
\* variable bindings the next execution on the board starts from are those
\* from before the failed call (no other call having run on the board
\* meanwhile).
C6_FailedCallLeavesBindings ==
    \A t \in Tasks :
        (FailedInExecOrRender(t) /\ tasks[t].before # <<>> /\ ~tasks[t].disturbed)
        => UserVars(namespaces[boards[tasks[t].name].namespace])
              = UserVars(tasks[t].before[1].dict)

InRange(x) == 1 <= x /\ x <= 8192
ShouldReject(t) ==
    \/ validate_board_name(tasks[t].name) # "ok"
    \/ ~InRange(tasks[t].w) \/ ~InRange(tasks[t].h)
    \/ tasks[t].code.len > 1000000
RejectedNow(t) ==
    tasks[t].pc = "idle" /\ tasks'[t].pc = "done" /\ tasks'[t].resp.stage = "validation"

\* C7: a call is rejected with a tool-level error exactly when the name is
\* invalid, width or height is outside 1..8192, or the code is longer than
\* 1,000,000 bytes; the rejection creates and changes no board, runs no code
\* and sends no event.
C7_RejectedExactlyWhenInvalid ==
    /\ [](\A t \in Tasks : tasks[t].pc # "idle" =>
            /\ ShouldReject(t) <=> Returned(t, "tool_error", "validation")
            /\ ShouldReject(t) => tasks[t].pc = "done")
    /\ [][\A t \in Tasks : RejectedNow(t) =>
            UNCHANGED <<boards, namespaces, events, sysStdout, bufs, svgStorage,
                        realOut, wlock, clock>>]_vars

\* One call has been rejected for a snippet one byte over the limit while
\* a call with width 8192 and exactly 1,000,000 bytes of code is past
\* validation and under way.
C7_Witness ==
    \E t, u \in Tasks :
        /\ Returned(t, "tool_error", "validation")
        /\ tasks[t].code.len = MAX_CODE_LEN + 1
        /\ InFlight(u)
        /\ tasks[u].w = MAX_DIMENSION /\ tasks[u].code.len = MAX_CODE_LEN

\* C8: a call whose snippet succeeds without calling svg() sends one
\* Updated BoardEvent for the board.
C8_NoteCallBroadcastsUpdated ==
    \A t \in Tasks : Returned(t, "success", "note") =>
        /\ Cardinality(EventsBy(tasks[t].id)) = 1
        /\ \A i \in EventsBy(tasks[t].id) :
              events[i] = [board_name |-> tasks[t].name, event_type |-> "Updated"]

\* C9: with a strictly increasing clock, every commit to a board sets
\* updated_at to a value greater than the one it replaces.
C9_UpdatedAtIncreases ==
    [][\A n \in DOMAIN boards :
          boards'[n] # boards[n] => boards'[n].updated_at > boards[n].updated_at]_vars

\* C10: a call that commits a render sends exactly one BoardEvent, after the
\* commit, with the board's name and with kind Created if the call inserted
\* the board and Updated otherwise.
C10_OneEventPerRenderCommit ==
    \A t \in Tasks :
        /\ tasks[t].pc = "broadcast" => EventsBy(tasks[t].id) = {}
        /\ Returned(t, "success", "image") =>
              /\ Cardinality(EventsBy(tasks[t].id)) = 1
              /\ \A i \in EventsBy(tasks[t].id) :
                    /\ events[i].board_name = tasks[t].name
                    /\ events[i].event_type =
                          IF creator[tasks[t].name] = tasks[t].id THEN "Created"
                          ELSE "Updated"

\* The call that created a board has rendered to it and sent Created, and a
\* second call has rendered to the same board and sent Updated.
C10_Witness ==
    \E t \in Tasks, i, j \in 1..Len(events) :
        /\ Returned(t, "success", "image") /\ eventBy[j] = tasks[t].id
        /\ i < j /\ events[i].board_name = events[j].board_name
        /\ events[i].event_type = "Created" /\ events[j].event_type = "Updated"

\* The bindings a call's execution started from hold every value that the
\* execution before it on the board assigned, when that execution succeeded
\* and neither of the two ran while another execution was under way.
PyKeepsBindings(t) ==
    \A i \in 1..Len(tasks[t].start) :
        LET st == tasks[t].start[i]
        IN (st.alone /\ st.prev.ok /\ st.prev.clean) =>
              \A k \in DOMAIN st.prev.assigned :
                  k \in DOMAIN st.vars /\ st.vars[k] = st.prev.assigned[k]

\* The same for the Rhai executor: the scope an execution started from
\* holds every value the execution before it assigned, when that one ended
\* without error.
RhaiKeepsBindings ==
    \A i \in 1..Len(rhai.last) :
        LET r == rhai.last[i]
        IN r.prev.ok =>
              \A k \in DOMAIN r.prev.assigned :
                  LET at == Resolve(r.started, k)
                  IN at # 0 /\ r.started[at].value = r.prev.assigned[k]

\* C12: at the start of every execution the snippet sees WIDTH and HEIGHT
\* equal to that call's width and height, whatever the board was created
\* with and whatever an earlier snippet assigned to those names (Python: the
\* first statement of a call reads the call's own dimensions; Rhai: the
\* scope the script starts from resolves the two names to the arguments of
\* execute), and the constants are not in the scope text that is carried to
\* the next execution.
C12_SeesOwnDimensions ==
    /\ \A t \in Tasks :
          tasks[t].seen # <<>> =>
              tasks[t].seen[1] = [WIDTH |-> tasks[t].w, HEIGHT |-> tasks[t].h]
    /\ \A i \in 1..Len(rhai.last) :
          LET r == rhai.last[i]
          IN /\ r.started[Resolve(r.started, "WIDTH")].value = DInt(r.size[1])
             /\ r.started[Resolve(r.started, "HEIGHT")].value = DInt(r.size[2])
             /\ r.result.scope.ok => DOMAIN r.result.scope.map \subseteq {"x"}

\* C13: the image output of an execution is the argument of the last svg()
\* call made by that execution's own snippet, or none if it made none; it is
\* never a value passed to svg() by an earlier or an overlapping execution.
C13_ImageIsOwnLastSvg ==
    /\ \A t \in Tasks :
          (tasks[t].out # <<>> /\ ~tasks[t].raised) =>
              tasks[t].out[1].svg_content = tasks[t].drew
    /\ \A i \in 1..Len(rhai.last) :
          rhai.last[i].result.error = <<>> =>
              rhai.last[i].result.svg = rhai.last[i].drew

\* C14: the stdout text returned for an execution consists of exactly the
\* lines its own snippet printed, in order: nothing printed by an
\* overlapping execution is captured into it, and none of its own output
\* goes to another execution's buffer or to the process's real stdout.
C14_StdoutIsOwnOutput ==
    /\ \A t \in Tasks :
          tasks[t].out # <<>> => tasks[t].out[1].stdout = tasks[t].printed
    /\ realOut = <<>>
    /\ \A i \in 1..Len(rhai.last) :
          rhai.last[i].result.stdout = rhai.last[i].printed

\* C15: every execution ends: a snippet with an unbounded loop is stopped
\* with a resource error once it has executed 2,000,000 operations (no
\* execution is ever found having executed more than that, and an execution
\* that reached the cap has returned the resource error).
C15_LoopStoppedAtCap ==
    /\ \A t \in Tasks : tasks[t].ops <= MAX_OPERATIONS
    /\ \A i \in 1..Len(rhai.last) :
          /\ rhai.last[i].ran <= MAX_OPERATIONS
          /\ rhai.last[i].ran = MAX_OPERATIONS =>
                 rhai.last[i].result.error = <<"Too many operations">>

\* C16: in every namespace produced by create_namespace and every execution
\* in it, a snippet that imports a blocked module or calls one of the
\* blocked builtins ends in an error (no execution has got past such a
\* statement), also after any number of earlier executions.
C16_BlockedStaysBlocked ==
    \A t \in Tasks : tasks[t].reached = {}

\* C17: when a snippet fails at run time after printing, the error that
\* execute returns contains the text printed before the failure, followed
\* by the error description; when nothing was printed it is the
\* description alone (Python: the stdout section of the message is what the
\* snippet printed; Rhai: the result carries the printed text and the
\* description).
C17_ErrorCarriesPrintedText ==
    /\ \A t \in Tasks :
          (tasks[t].pc = "done" /\ tasks[t].raised) =>
              /\ tasks[t].resp.kind = "tool_error"
              /\ tasks[t].resp.text = "Python error"
              /\ tasks[t].resp.stdout = tasks[t].printed
    /\ \A i \in 1..Len(rhai.last) :
          LET r == rhai.last[i]
          IN (r.code.compiles /\ r.result.error # <<>>) =>
                 r.result.stdout = r.printed

\* C18: execute on code that contains a NUL byte returns an error without
\* compiling or running any part of the snippet (the call has an error as
\* its result and no statement of the snippet was executed).
C18_NulRejectedBeforeRun ==
    /\ \A t \in Tasks :
          (tasks[t].code.nul /\ tasks[t].start # <<>>) =>
              /\ tasks[t].pc = "done"
              /\ tasks[t].resp.kind = "tool_error"
              /\ tasks[t].ops = 0
    /\ \A i \in 1..Len(rhai.last) :
          rhai.last[i].code.nul =>
              rhai.last[i].result.error # <<>> /\ rhai.last[i].ran = 0

\* C19: svg_to_png returns an error for a document whose integer width or
\* height is 0 ("zero dimensions", checked first) or greater than 8192
\* ("exceed maximum"), and allocates a pixmap and rasterizes only when both
\* dimensions are in 1..8192; 8192 itself is accepted.
C19_RenderSizeChecks ==
    (raster.result # <<>> /\ ParsesAsSvg(raster.doc[1])) =>
        LET w == raster.doc[1].width
            h == raster.doc[1].height
            r == raster.result[1]
        IN /\ (w = 0 \/ h = 0) =>
                 ~r.ok /\ r.err = "SVG has zero dimensions" /\ r.pixmap = <<>>
           /\ (w # 0 /\ h # 0 /\ (w > 8192 \/ h > 8192)) =>
                 ~r.ok /\ r.err = "SVG dimensions exceed maximum" /\ r.pixmap = <<>>
           /\ (w \in 1..8192 /\ h \in 1..8192) =>
                 r.ok /\ r.pixmap = <<w, h>> /\ r.png # <<>>

\* A document of 8192 by 8192 has been rasterized.
C19_Witness ==
    /\ raster.result # <<>>
    /\ raster.doc[1].width = 8192 /\ raster.doc[1].height = 8192
    /\ raster.result[1].ok

\* C20: GET /gallery/board/{name}/png returns 200 with the board's current
\* png exactly when the board exists and its png is non-empty, and 404
\* otherwise; /svg does the same with the svg; so in every reachable state
\* the two endpoints return the same status for the same name.
C20_PngAndSvgEndpointsAgree ==
    \A name \in GalleryNames :
        /\ board_png(name) =
              IF name \in DOMAIN boards /\ boards[name].png # <<>>
              THEN Response(200, <<boards[name].png>>) ELSE Response(404, <<>>)
        /\ board_svg(name) =
              IF name \in DOMAIN boards /\ ~is_empty(boards[name].svg)
              THEN Response(200, <<boards[name].svg>>) ELSE Response(404, <<>>)
        /\ board_png(name).status = board_svg(name).status

\* One board is served with 200 by both endpoints, another exists as a
\* placeholder and is answered 404 by both, and a third name has no board.
C20_Witness ==
    /\ \E name \in GalleryNames :
          board_png(name).status = 200 /\ board_svg(name).status = 200
    /\ \E name \in GalleryNames :
          name \in DOMAIN boards /\ board_png(name).status = 404
    /\ \E name \in GalleryNames : name \notin DOMAIN boards

\* C21: a gallery subscriber receives the BoardEvents sent after it
\* subscribed in the order they were sent; events are skipped only when it
\* has fallen more than 64 events behind, the skipped ones are the oldest
\* undelivered ones, the stream stays open, and later events are still
\* delivered in order.
C21_SubscriberOrderAndLag ==
    /\ sse.ordered
    /\ sse.last # 0 => sse.last > sse.since /\ sse.last <= sse.total
    /\ sse.subscribed => sse.open
    /\ sse.delivered + sse.skipped = sse.next
    /\ sse.skipped > 0 => sse.behind > 64
    /\ sse.skipped = 0 => sse.last = sse.since + sse.next \/ sse.next = 0
    /\ sse.last <= sse.since + sse.next

\* A subscriber that fell behind has skipped events and has afterwards been
\* delivered an event sent after the skipped ones.
C21_Witness ==
    /\ sse.skipped > 0
    /\ sse.last = sse.since + sse.next
    /\ sse.delivered > 0

\* C22: validate_board_name(s) succeeds exactly when s is non-empty, at
\* most 128 bytes long, contains none of '/', NUL, CR, LF, does not start
\* with '.', and has no leading or trailing space; when several rules are
\* violated the reason reported is that of the first violated rule in the
\* order empty, length, forbidden character, leading dot or space.
C22_ValidateNameRules ==
    (probe.fn = "validate_board_name" /\ probe.result # <<>>) =>
        LET s == probe.arg
            r == probe.result[1]
            empty == Len(s) = 0
            bytes == Len(s) + Cardinality({i \in 1..Len(s) : s[i] = E_ACUTE})
            long == bytes > 128
            forbidden == \E i \in 1..Len(s) : s[i] \in {"/", NUL, "\r", "\n"}
            edges == ~empty /\ (s[1] = "." \/ s[1] = " " \/ s[Len(s)] = " ")
        IN /\ r = "ok" <=> ~empty /\ ~long /\ ~forbidden /\ ~edges
           /\ empty => r = "Board name cannot be empty"
           /\ (~empty /\ long) => r = "Board name too long"
           /\ (~empty /\ ~long /\ forbidden) =>
                 r = "Board name cannot contain /, null, or newline characters"
           /\ (~empty /\ ~long /\ ~forbidden /\ edges) =>
                 r = "Board name cannot start with '.' or have leading/trailing spaces"

\* A name of 129 bytes that also starts with a dot has been refused for its
\* length.
C22_Witness ==
    /\ probe.fn = "validate_board_name" /\ probe.result # <<>>
    /\ probe.arg = <<".">> \o Repeat("a", 128)
    /\ probe.result[1] = "Board name too long"

\* C23: when an output directory is configured and writing the .png or the
\* .svg file fails, the whiteboard call still returns success with the
\* image, the board commit and the BoardEvent are the same as if the write
\* had succeeded, and the failed file's path is left out of the response
\* header (the path of a file that was written is in it).
C23_WriteFailureNotFatal ==
    \A t \in Tasks :
        (tasks[t].pc = "done" /\ tasks[t].png_bytes # <<>>) =>
            LET me == tasks[t]
            IN /\ me.resp.kind = "success"
               /\ me.resp.png = me.png_bytes
               /\ \E i \in 1..Len(events) :
                     eventBy[i] = me.id /\ events[i].board_name = me.name
               /\ \E i \in 1..Len(committed[me.name]) :
                     committed[me.name][i] = [svg |-> me.svg_content, png |-> me.png_bytes]
               /\ me.resp.png_path = IF me.wrote.png THEN <<PngFile(me.name)>> ELSE <<>>
               /\ me.resp.svg_path = IF me.wrote.svg THEN <<SvgFile(me.name)>> ELSE <<>>

\* With an output directory, a call has returned its image although the
\* .png write failed; the .svg was written and only its path is in the header.
C23_Witness ==
    \E t \in Tasks :
        /\ disk.output_dir
        /\ Returned(t, "success", "image")
        /\ ~tasks[t].wrote.png /\ tasks[t].wrote.svg
        /\ tasks[t].resp.png_path = <<>>
        /\ tasks[t].resp.svg_path = <<SvgFile(tasks[t].name)>>
        /\ SvgFile(tasks[t].name) \in DOMAIN disk.files
        /\ PngFile(tasks[t].name) \notin DOMAIN disk.files

C25_InvalidColorNeverAborts ==
    (probe.fn \in ColorFns \cup {"color_mix"} /\ probe.result # <<>>) =>
        LET IsColor(x) ==
                LET body == IF x # <<>> /\ x[1] = "#" THEN Tail(x) ELSE x
                IN Len(body) \in {3, 6, 8} /\ \A i \in 1..Len(body) : body[i] \in HexDigits
            bad == {i \in 1..Len(probe.args) : ~IsColor(probe.args[i])}
            out == probe.result[1]
        IN /\ out.kind # "abort"
           /\ bad # {} =>
                 /\ out.kind = "invalid"
                 /\ out.input = probe.args[CHOOSE i \in bad : \A j \in bad : i <= j]
           /\ bad = {} => out.kind = "color"

\* C26 as stated: the board-map lock is never held while a request task
\* waits for work dispatched to a worker thread: both namespace creation
\* and script execution run with the lock released.
C26_LockNeverHeldAcrossDispatch ==
    \A t \in Tasks :
        tasks[t].pc \in {"create_namespace", "run_python", "py_run"} => wlock # t

\* C26 (amended): script execution is dispatched and runs with the
\* board-map lock released by the task; namespace creation for a new board
\* is dispatched and awaited while the task holds the write lock, which it
\* releases once the placeholder board is inserted or the creation failed.
C26_LockHeldOnlyForCreation ==
    \A t \in Tasks :
        /\ tasks[t].pc \in {"run_python", "py_run"} => wlock # t
        /\ tasks[t].pc = "create_namespace" => wlock = t

\* One task's script is running while the other task holds the write lock
\* and waits for the worker thread that builds its namespace.
C26_Witness ==
    \E t, u \in Tasks :
        /\ tasks[t].pc = "py_run" /\ tasks[t].ip > 0
        /\ tasks[u].pc = "create_namespace" /\ wlock = u

\* C27: the BoardEvent of a commit is sent only after that commit's write
\* lock has been released, so a reader that reads the board after receiving
\* the event sees the committed svg/png or a later commit, never the
\* pre-commit state: for every event sent, the board exists and shows the
\* last of its commits, and while the sender has not returned, its own
\* commit is among them, at its place or before the one shown, and it does
\* not hold the lock.
C27_EventAfterCommitVisible ==
    /\ \A i \in 1..Len(events) :
          LET n == events[i].board_name
          IN /\ n \in DOMAIN boards
             /\ committed[n] # <<>>
             /\ [svg |-> boards[n].svg, png |-> boards[n].png]
                    = committed[n][Len(committed[n])]
             /\ \A t \in Tasks :
                   (tasks[t].pc = "done" /\ tasks[t].id = eventBy[i]) =>
                      /\ wlock # t
                      /\ tasks[t].commit_no \in 1..Len(committed[n])
                      /\ committed[n][tasks[t].commit_no]
                            = [svg |-> tasks[t].svg_content, png |-> tasks[t].png_bytes]
    /\ \A t \in Tasks : tasks[t].pc = "broadcast" => wlock # t

\* Both ends of the claim: an event has been sent whose sender's commit is
\* the one the board shows, and another whose sender's commit has already
\* been followed by a later commit on the same board.
C27_Witness ==
    \E t, u \in Tasks :
        /\ t # u
        /\ tasks[t].pc = "done" /\ tasks[u].pc = "done"
        /\ tasks[t].name = tasks[u].name
        /\ \E i, j \in 1..Len(events) :
              eventBy[i] = tasks[t].id /\ eventBy[j] = tasks[u].id
        /\ tasks[t].commit_no = 1 /\ tasks[u].commit_no = 2
        /\ Len(committed[tasks[t].name]) = 2
        /\ boards[tasks[t].name].svg = tasks[u].svg_content
        /\ tasks[t].svg_content # tasks[u].svg_content

\* C28: a namespace-only commit (successful execution without an image)
\* changes only the board's namespace and updated_at: its svg, png, width,
\* height, created_at and history are left unchanged, and no other board is
\* touched.
C28_NamespaceOnlyCommitFrame ==
    [][\A t \in Tasks :
          (tasks[t].pc = "commit_namespace" /\ tasks'[t].pc = "done") =>
             /\ DOMAIN boards' = DOMAIN boards
             /\ \A m \in DOMAIN boards :
                   IF m = tasks[t].name
                   THEN /\ boards'[m].svg = boards[m].svg
                        /\ boards'[m].png = boards[m].png
                        /\ boards'[m].width = boards[m].width
                        /\ boards'[m].height = boards[m].height
                        /\ boards'[m].created_at = boards[m].created_at
                        /\ boards'[m].history = boards[m].history
                        /\ boards'[m].name = boards[m].name
                        /\ boards'[m].namespace = tasks[t].namespace
                   ELSE boards'[m] = boards[m]]_vars

\* A call without an image has returned on a board that holds a render:
\* the board still shows the render, and its updated_at is the time of
\* this commit, the latest time taken.
C28_Witness ==
    \E t \in Tasks :
        LET n == tasks[t].name
        IN /\ Returned(t, "success", "note")
           /\ n \in DOMAIN boards
           /\ ~is_empty(boards[n].svg) /\ boards[n].png # <<>>
           /\ boards[n].updated_at = clock - 1
           /\ boards[n].updated_at > boards[n].created_at
           /\ \A u \in Tasks \ {t} : tasks[u].pc \in {"idle", "done"}

\* C29: every read of a board under the shared lock (gallery index, detail
\* page, png/svg endpoints, whiteboard_list) sees svg, png, updated_at,
\* width, height and history length that all result from the same commit:
\* what each reader shows of a board is what the last commit on that board
\* set out to store, never a mix of two commits.
C29_ReadersSeeOneCommit ==
    \A n \in DOMAIN boards :
        LET last == snap[n]
            page == board_detail(n)
        IN /\ page.found
           /\ page.svg = <<last.svg>> /\ page.img = last.png
           /\ page.w = last.width /\ page.h = last.height
           /\ page.updated = last.updated_at /\ page.history_len = last.history_len
           /\ board_png(n) = IF last.png # <<>> THEN Response(200, <<last.png>>)
                             ELSE Response(404, <<>>)
           /\ board_svg(n) = IF last.svg.text # "" THEN Response(200, <<last.svg>>)
                             ELSE Response(404, <<>>)
           /\ \E i \in 1..Len(gallery_index) :
                 gallery_index[i] = [name |-> n, has_image |-> last.png # <<>>,
                                     w |-> last.width, h |-> last.height,
                                     updated |-> last.updated_at]
           /\ \E i \in 1..Len(whiteboard_list) :
                 LET b == whiteboard_list[i]
                 IN /\ b.name = n /\ b.png = last.png
                    /\ b.width = last.width /\ b.height = last.height
                    /\ b.updated = last.updated_at /\ b.history_len = last.history_len

\* Two overlapping calls have both committed different renders to one
\* board, the one that sampled its time later committing first; the page
\* shows the second commit's render with that commit's earlier time and one
\* archived render.
C29_Witness ==
    \E n \in DOMAIN boards :
        /\ Len(committed[n]) = 2
        /\ committed[n][1] # committed[n][2]
        /\ board_detail(n).svg = <<committed[n][2].svg>>
        /\ board_detail(n).history_len = 1
        /\ boards[n].history[1].timestamp > board_detail(n).updated
        /\ Len(whiteboard_list) = 1

\* C30: no two boards in the map share a namespace: every get_or_create of
\* a new name creates a fresh namespace, and a variable assigned by an
\* execution on one board is never visible to an execution on a different
\* board: the boards' handles are pairwise different, a call works on the
\* handle of its own board, and a step changes a namespace only when the
\* task taking the step is executing on the board that owns it.
C30_NamespacesNotShared ==
    /\ [](/\ \A n, m \in DOMAIN boards :
               n # m => boards[n].namespace # boards[m].namespace
          /\ \A n \in DOMAIN boards : boards[n].namespace \in 1..Len(namespaces)
          /\ \A t \in Tasks :
               tasks[t].pc \in {"run_python", "py_run", "commit", "commit_namespace"} =>
                  /\ tasks[t].name \in DOMAIN boards
                  /\ tasks[t].namespace = boards[tasks[t].name].namespace)
    /\ [][\A k \in 1..Len(namespaces) :
            namespaces'[k] # namespaces[k] =>
               \E t \in Tasks :
                  /\ <<tasks'[t].pc, tasks'[t].ip, tasks'[t].ops>>
                        # <<tasks[t].pc, tasks[t].ip, tasks[t].ops>>
                  /\ tasks[t].pc \in {"run_python", "py_run"}
                  /\ boards[tasks[t].name].namespace = k
                  /\ \A m \in DOMAIN boards \ {tasks[t].name} : boards[m].namespace # k]_vars

\* Two boards exist, each with its own namespace, and both namespaces hold
\* the variable x assigned by the call on that board, with different values.
C30_Witness ==
    \E n, m \in DOMAIN boards :
        /\ n # m
        /\ boards[n].namespace # boards[m].namespace
        /\ "x" \in DOMAIN namespaces[boards[n].namespace]
        /\ "x" \in DOMAIN namespaces[boards[m].namespace]
        /\ namespaces[boards[n].namespace]["x"] # namespaces[boards[m].namespace]["x"]

\* C31: when two calls on the same board that both render successfully
\* overlap in time, their commits are applied one after the other under the
\* write lock: afterwards the board's svg and png are those of the call
\* that committed last, and the other call's svg and png form the newest
\* history snapshot, so neither render is lost.
C31_BothRendersKept ==
    \A t, u \in Tasks :
        LET n == tasks[t].name
        IN (/\ t # u
            /\ tasks[t].pc \in {"broadcast", "done"} /\ tasks[u].pc \in {"broadcast", "done"}
            /\ tasks[t].commit_no > 0 /\ tasks[u].commit_no > 0
            /\ tasks[u].name = n
            /\ tasks[u].commit_no < tasks[t].commit_no) =>
               /\ tasks[t].commit_no = tasks[u].commit_no + 1
               /\ boards[n].svg = tasks[t].svg_content
               /\ boards[n].png = tasks[t].png_bytes
               /\ boards[n].history # <<>>
               /\ boards[n].history[Len(boards[n].history)].svg = tasks[u].svg_content
               /\ boards[n].history[Len(boards[n].history)].png = tasks[u].png_bytes

\* Two calls on one new board, the second started before the first had
\* committed, have both committed different renders: the board shows the
\* later commit and its history holds the earlier one.
C31_Witness ==
    \E t, u \in Tasks :
        /\ tasks[t].pc = "done" /\ tasks[u].pc = "done"
        /\ tasks[t].name = tasks[u].name
        /\ tasks[u].commit_no = 1 /\ tasks[t].commit_no = 2
        /\ tasks[t].before = <<>>
        /\ tasks[t].svg_content # tasks[u].svg_content
        /\ boards[tasks[t].name].svg = tasks[t].svg_content
        /\ Len(boards[tasks[t].name].history) = 1

\* C32: when the snippet fails to compile, execute runs none of it: the
\* result's error starts with "Compile error: ", no image is returned, and
\* the returned scope is the input scope unchanged.
C32_CompileErrorRunsNothing ==
    \A i \in 1..Len(rhai.last) :
        LET r == rhai.last[i]
        IN ~r.code.compiles =>
              /\ r.result.error = <<"Compile error">>
              /\ r.result.svg = <<>>
              /\ r.result.scope = r.scope_json
              /\ r.ran = 0 /\ r.assigned = <<>> /\ r.printed = <<>> /\ r.drew = <<>>
              /\ rhai.SVG_CONTENT = <<>>
              /\ rhai.store = r.scope_json

\* A script that does not compile was handed to execute with a scope that
\* holds x: the result carries the compile error, no image, and that scope.
C32_Witness ==
    /\ rhai.last # <<>>
    /\ ~rhai.last[1].code.compiles
    /\ rhai.last[1].code.stmts # <<>>
    /\ rhai.last[1].scope_json # EmptyObject
    /\ rhai.last[1].result.scope = rhai.last[1].scope_json
    /\ rhai.last[1].result.error = <<"Compile error">>

\* C33: after any sequence of calls, every board in the map has a name that
\* passes validate_name (not empty, at most 128 bytes, none of '/', NUL, CR,
\* LF, no leading '.', no leading or trailing space), a name field equal to
\* its map key, and width and height in 1..8192.
C33_BoardsAreValid ==
    \A n \in DOMAIN boards :
        /\ n # <<>>
        /\ Len(n) + Cardinality({i \in 1..Len(n) : n[i] = E_ACUTE})
                  + 2 * Cardinality({i \in 1..Len(n) : n[i] = SQRT_SIGN}) <= 128
        /\ \A i \in 1..Len(n) : n[i] \notin {"/", NUL, "\r", "\n"}
        /\ n[1] \notin {".", " "} /\ n[Len(n)] # " "
        /\ boards[n].name = n
        /\ boards[n].width \in 1..8192 /\ boards[n].height \in 1..8192

\* A board of the largest width and the smallest height holds its render,
\* and a call with an invalid name or size has been turned away with the
\* map left without a board for it.
C33_Witness ==
    /\ NameB \in DOMAIN boards
    /\ boards[NameB].width = 8192 /\ boards[NameB].height = 1
    /\ boards[NameB].png # <<>>
    /\ \E t \in Tasks :
          /\ tasks[t].pc = "done" /\ tasks[t].resp.kind = "tool_error"
          /\ tasks[t].resp.stage = "validation"
          /\ DOMAIN boards = {NameB}

\* C34: in a successful render call the steps occur in the order commit,
\* write output files, broadcast BoardEvent: when a subscriber receives the
\* event of a commit, the attempt to write that commit's .png and .svg
\* files has already finished (no event is in the channel while its sender
\* has yet to attempt the writes).
C34_FilesWrittenBeforeEvent ==
    \A i \in 1..Len(events) :
        \A t \in Tasks :
            (disk.output_dir /\ tasks[t].id = eventBy[i]) => tasks[t].pc # "write_files"

\* C35: for every board name, the BoardEvents broadcast for it, taken in
\* send order, are one Created followed only by Updated events: no Updated
\* is sent for a board before its Created, and Created is sent at most
\* once, whatever the outcome of earlier calls on that name and however
\* calls overlap in time.
C35_CreatedThenUpdated ==
    \A i \in 1..Len(events) :
        (events[i].event_type = "Created")
            <=> (\A j \in 1..(i - 1) : events[j].board_name # events[i].board_name)

\* C36: when execute_python returns, with success or with any error (an
\* exception in the snippet or the rejection of a NUL byte), the process-wide
\* sys.stdout is the object it was when the call began, and an execution's
\* capture buffer is installed only while that execution is under way.
C36_StdoutRestored ==
    /\ [][\A t \in Tasks :
            /\ (tasks[t].pc = "run_python" /\ tasks'[t].pc = "done")
                   => sysStdout' = sysStdout
            /\ (tasks[t].pc = "py_run" /\ tasks'[t].pc # "py_run")
                   => sysStdout' = tasks[t].old_stdout]_vars
    /\ [](sysStdout # 0 =>
             \E t \in Tasks : tasks[t].id = sysStdout /\ tasks[t].pc = "py_run")

\* C37: on every board that holds a render, and in every history snapshot,
\* the stored png is the raster that svg_to_png produces from the svg stored
\* next to it, whatever the interleaving of the calls that committed them.
C37_PngIsRenderOfSvg ==
    \A n \in DOMAIN boards :
        /\ ~is_empty(boards[n].svg) =>
              /\ svg_to_png(boards[n].svg).ok
              /\ boards[n].png = svg_to_png(boards[n].svg).png
        /\ \A i \in 1..Len(boards[n].history) :
              /\ svg_to_png(boards[n].history[i].svg).ok
              /\ boards[n].history[i].png = svg_to_png(boards[n].history[i].svg).png

\* a board whose render replaced a different one, which is now a snapshot,
\* the two having been committed by calls that overlapped
C37_Witness ==
    \E n \in DOMAIN boards :
        /\ ~is_empty(boards[n].svg)
        /\ Len(boards[n].history) >= 1
        /\ boards[n].history[Len(boards[n].history)].png # boards[n].png
        /\ \A t \in Tasks : tasks[t].name = n /\ tasks[t].pc \in {"broadcast", "write_files"}

\* C38: under fair scheduling every whiteboard call whose snippet
\* terminates eventually returns a response, and the board-map lock and the
\* interpreter lock never block each other: a task that holds the write
\* guard while it creates a namespace or clones a handle gets the
\* interpreter and releases the guard.
C38_CallsReturnAndGuardIsReleased ==
    /\ \A t \in Tasks :
          (/\ tasks[t].pc \notin {"idle", "done"}
           /\ \A i \in 1..Len(tasks[t].code.stmts) :
                 tasks[t].code.stmts[i].op \notin {"loop", "hog"})
              ~> (tasks[t].pc = "done")
    /\ \A t \in Tasks : (wlock = t) ~> (wlock # t)

\* C39: two boards with different valid names never write their output to
\* the same file path of the output directory: of two calls that wrote their
\* files for boards with different names, neither wrote the .png or the .svg
\* path of the other, so no board's file is overwritten by another board's
\* render.
C39_BoardsWriteDistinctFiles ==
    \A t \in Tasks, u \in Tasks :
        (/\ disk.output_dir
         /\ tasks[t].pc = "done" /\ tasks[u].pc = "done"
         /\ validate_board_name(tasks[t].name) = "ok"
         /\ validate_board_name(tasks[u].name) = "ok"
         /\ tasks[t].name # tasks[u].name)
            => /\ (tasks[t].wrote.png /\ tasks[u].wrote.png)
                      => PngFile(tasks[t].name) # PngFile(tasks[u].name)
               /\ (tasks[t].wrote.svg /\ tasks[u].wrote.svg)
                      => SvgFile(tasks[t].name) # SvgFile(tasks[u].name)

\* C11: a variable assigned by a successful execution on a board has the
\* same value at the start of the next execution on that board, for
\* consecutive calls, whether or not the calls produced an image.
C11_BindingsCarried ==
    /\ \A t \in Tasks : PyKeepsBindings(t)
    /\ RhaiKeepsBindings

====
